---- MODULE Spec2Model ----
(***************************************************************************)
(* Verification model of the scrape orchestration core of kanaver3:        *)
(*   - RequestQueue        (src/src/services/request_queue.js, 1..245)     *)
(*   - ScrapeOrchestrator  (src/unnamed/part_001)                          *)
(*   - DataIntegrityService (src/unnamed/part_000)                         *)
(*   - the rate limit of the MangaDex adapter (src/unnamed/part_003)       *)
(*                                                                         *)
(* JavaScript runs every handler to completion between two awaits, so each *)
(* action below is one such run: the synchronous part of a call, or the    *)
(* callback of a settled task or a fired timer, together with the promise  *)
(* reactions (the code after an await) that the run has made ready: these  *)
(* run before the next callback or call.                                   *)
(*                                                                         *)
(* Specifications:                                                         *)
(*   Spec        callers of RequestQueue.enqueue, pause, resume            *)
(*   SpecScrape  callers of ScrapeOrchestrator.scrape                      *)
(*   SpecMulti   callers of ScrapeOrchestrator.scrapeMultiProvider         *)
(*   SpecPaginated callers of ScrapeOrchestrator.scrapePaginated           *)
(*   SpecControl RequestQueue with clear, pause, resume at any time        *)
(*   SpecTasks   RequestQueue with the task invocations followed to their  *)
(*               end                                                       *)
(*   SpecLive    RequestQueue over time without an end, its timers fair    *)
(*   SpecScrapeAll callers of scrape with every combination of its flags   *)
(*   SpecScrapeControl callers of scrape, the queue paused and cleared     *)
(*   SpecValidate DataIntegrityService.validateIntegrity                   *)
(*   SpecHealth  the health record of the sources on its own               *)
(*   SpecDedupe  DataIntegrityService.generateHash and deduplicate         *)
(*   SpecSources DataIntegrityService.deduplicate on the items of several  *)
(*               sources                                                   *)
(*   SpecDetect  DataIntegrityService.detectNewItems                       *)
(*   SpecLedger  DataIntegrityService.isProcessed and markProcessed        *)
(*   SpecApi     concurrent apiRequest calls of the MangaDex adapter       *)
(***************************************************************************)
EXTENDS Integers, Sequences, FiniteSets, TLC

(***************************************************************************)
(* Configuration of the RequestQueue (constructor options, lines 8-28).    *)
(* Times are in ticks of the clock `now` (Date.now()).                     *)
(***************************************************************************)
maxConcurrent == 2

maxQueueSize == 2

retryAttempts == 2

retryDelay == 1

timeout == 2

providerMinDelay == 2

\* staleThresholds.latest, the stale threshold and cache TTL of 'latest'
staleThreshold == 1

maxHistorySize == 100

\* RATE_LIMIT.minInterval of the MangaDex adapter
minInterval == 2

\* hashExpiry of the DataIntegrityService, the lifetime of a ledger entry
hashExpiry == 2

\* the duplicateThreshold option of scrapePaginated (its default), in percent
duplicateThreshold == 80

\* the `timeout` option of scrapeMultiProvider (its default)
providerTimeout == 2

(***************************************************************************)
(* Bounds of the model.                                                    *)
(***************************************************************************)
\* number of request objects ever created by enqueue
MaxJobs == 3

Providers == {"p1", "p2"}

\* the clock runs for this many ticks
MaxTicks == 2

\* error kinds of a Source Adapter failure; the queue's own 'Request timeout'
\* (line 126) is "Timeout"
ErrorKinds == <<"NotFound", "Parse", "Network">>

\* number of scrape() calls
MaxCalls == 3

\* number of scrapeMultiProvider() calls
MaxMulti == 2

JobIds == 1..MaxJobs

CallIds == 1..MaxCalls

MultiIds == 1..MaxMulti

\* number of scrapePaginated() calls
MaxPag == 1

\* the clock runs for this many ticks once a scrapePaginated() call has been
\* made: its pages are fetched one after another, providerMinDelay apart
MaxPagTicks == 4

PagIds == 1..MaxPag

\* number of apiRequest() calls of the MangaDex adapter
MaxApi == 3

ApiIds == 1..MaxApi

\* the clock runs for this many ticks where apiRequest is called
MaxApiTicks == 4

\* the clock runs for this many ticks where the processed ledger is used:
\* past the expiry of an entry marked after the first tick
MaxLedgerTicks == 4

\* the clock runs for this many ticks where the task invocations are followed
\* to their end: timeout, then the first backoff, then one tick more
MaxTaskTicks == 4

NoKey == <<"none", "none", "none">>

VARIABLES
    clock,      \* ticks of the clock since the start
    rq,         \* the RequestQueue object: queue, running, completed, failed,
                \* stats, paused, providerLastRequest
    req,        \* the request objects created by enqueue, by creation order
    nextId,     \* number of request objects created so far, plus one
    timers,     \* pending setTimeout(() => processQueue()), by deadline
    orch,       \* the ScrapeOrchestrator: activeOperations, providerHealth,
                \* operationHistory, and the calls of scrape and
                \* scrapeMultiProvider made so far
    integrity,  \* the DataIntegrityService: freshnessMap, dedupeIndex,
                \* dataHashes
    cache,      \* the Cache Store
    hist,       \* observation only: what the tasks did (never read by the code)
    pure,       \* the arguments and the results of the calls made to the
                \* DataIntegrityService on its own
    mangadex    \* the MangaDex adapter: RATE_LIMIT and the apiRequest calls

vars == <<clock, rq, req, nextId, timers, orch, integrity, cache, hist, pure, mangadex>>

(***************************************************************************)
(* Time. The code only ever compares Date.now() with a stored timestamp    *)
(* plus a delay, so the clock is kept relative to the present: `now` is    *)
(* fixed and the passing of one tick (action Tick) makes every stored      *)
(* timestamp one tick older. A timestamp old enough for the comparison the *)
(* code makes with it (now - t >= keep) is as good as 0 and becomes 0.     *)
(* The handlers below read `now` and the timestamps as the source does.    *)
(***************************************************************************)
now == providerMinDelay + timeout + retryDelay * retryAttempts

Older(t, keep) == IF now - (t - 1) >= keep THEN 0 ELSE t - 1

\* deadlines of the pending re-check timers: 0 (due) or up to now + providerMinDelay
Deadlines == 0..(now + providerMinDelay)

(***************************************************************************)
(* Helpers on sequences.                                                   *)
(***************************************************************************)
RemoveAt(s, i) == SubSeq(s, 1, i - 1) \o SubSeq(s, i + 1, Len(s))

InSeq(s, x) == \E i \in 1..Len(s) : s[i] = x

\* Array.prototype.findIndex, 1-based, 0 when no element satisfies P
FindIndex(s, P(_)) ==
    IF \E i \in 1..Len(s) : P(s[i])
    THEN CHOOSE i \in 1..Len(s) : P(s[i]) /\ \A k \in 1..(i - 1) : ~P(s[k])
    ELSE 0

Pow2(n) == IF n <= 0 THEN 1 ELSE 2 ^ n

(***************************************************************************)
(* The state the queue's handlers read and write, as one record            *)
(* w, so that handlers compose as in the source.       *)
(***************************************************************************)
World ==
    [rq |-> rq, req |-> req, timers |-> timers, nextId |-> nextId,
     orch |-> orch, integrity |-> integrity, cache |-> cache]

\* A request object (lines 39-47) with the state of its promise:
\*   st: unused | queued | running | backoff | resolved | rejected
FreshRequest ==
    [st |-> "unused", providerId |-> "p1", priority |-> FALSE, attempts |-> 0,
     key |-> NoKey, startedAt |-> 0, retryAt |-> 0, value |-> <<>>,
     error |-> "none"]

\* setTimeout(() => this.processQueue(), delay): fires at a time >= now + delay.
\* The pending re-checks are kept as the set of their deadlines: timers of one
\* deadline fire back to back, and processQueue run twice in a row does
\* nothing the second time.
AddTimer(tm, d) == tm \cup {d}

\* faulty variant: no re-check is scheduled when no queued request qualifies
getNextRequest_NoRecheck(w) ==
    LET q == w.rq.queue
        ok(j) == now - w.rq.providerLastRequest[w.req[j].providerId] >= providerMinDelay
        i == FindIndex(q, ok)
    IN  IF i # 0
        THEN [request |-> q[i], w |-> [w EXCEPT !.rq.queue = RemoveAt(q, i)]]
        ELSE [request |-> 0, w |-> w]

(***************************************************************************)
(* RequestQueue.getNextRequest (lines 90-109): the first queued request    *)
(* whose provider has waited providerMinDelay, spliced out of the queue;   *)
(* when none qualifies and the queue is not empty, a re-check is scheduled.*)
(***************************************************************************)
getNextRequest(w) ==
    LET q == w.rq.queue
        ok(j) == now - w.rq.providerLastRequest[w.req[j].providerId] >= providerMinDelay
        i == FindIndex(q, ok)
    IN  IF i # 0
        THEN [request |-> q[i], w |-> [w EXCEPT !.rq.queue = RemoveAt(q, i)]]
        ELSE [request |-> 0,
              w |-> IF Len(q) > 0
                    THEN [w EXCEPT !.timers = AddTimer(@, now + providerMinDelay)]
                    ELSE w]

\* faulty variant: the dispatch does not record the provider's last request time
processRequest_NoStamp(w, j) ==
    [w EXCEPT !.req[j].st = "running",
              !.req[j].startedAt = now]

(***************************************************************************)
(* RequestQueue.processRequest up to its await (lines 115-128): records    *)
(* the provider's last request time and starts the task and its timeout.   *)
(***************************************************************************)
processRequest(w, j) ==
    [w EXCEPT !.rq.providerLastRequest[w.req[j].providerId] = now,
              !.req[j].st = "running",
              !.req[j].startedAt = now]

\* faulty variant: the loop admits one request more than maxConcurrent
RECURSIVE processLoop_OffByOne(_)
processLoop_OffByOne(w) ==
    IF w.rq.running <= maxConcurrent /\ Len(w.rq.queue) > 0
    THEN LET g == getNextRequest(w)
         IN  IF g.request = 0
             THEN g.w
             ELSE processLoop_OffByOne(
                      processRequest([g.w EXCEPT !.rq.running = @ + 1], g.request))
    ELSE w

(***************************************************************************)
(* RequestQueue.processQueue (lines 74-84).                                *)
(***************************************************************************)
RECURSIVE processLoop(_)
processLoop(w) ==
    IF w.rq.running < maxConcurrent /\ Len(w.rq.queue) > 0
    THEN LET g == getNextRequest(w)
         IN  IF g.request = 0
             THEN g.w
             ELSE processLoop(processRequest([g.w EXCEPT !.rq.running = @ + 1], g.request))
    ELSE w

\* faulty variant: processQueue does not look at the paused flag
processQueue_IgnoresPause(w) == processLoop(w)

processQueue(w) == IF w.rq.paused THEN w ELSE processLoop(w)

\* faulty variant: on overflow the head of the queue is evicted, priority or not
enqueue_EvictHead(w, id, p, prio, key) ==
    LET request == [FreshRequest EXCEPT !.st = "queued", !.providerId = p,
                                        !.priority = prio, !.key = key]
        q == w.rq.queue
        nonPrio(j) == ~w.req[j].priority
        full == Len(q) >= maxQueueSize
    IN  IF full /\ FindIndex(q, nonPrio) = 0
        THEN [w EXCEPT !.req[id] = [request EXCEPT !.st = "rejected", !.error = "QueueFull"]]
        ELSE LET w1 == IF full
                       THEN [w EXCEPT !.rq.queue = RemoveAt(q, 1),
                                      !.req[q[1]].st = "rejected",
                                      !.req[q[1]].error = "QueueOverflow"]
                       ELSE w
                 w2 == [w1 EXCEPT !.req[id] = request,
                                  !.rq.queue = IF prio THEN <<id>> \o @ ELSE Append(@, id)]
             IN  processQueue(w2)

\* faulty variant: the queue-full branch rejects but does not return
enqueue_NoReturn(w, id, p, prio, key) ==
    LET request == [FreshRequest EXCEPT !.st = "queued", !.providerId = p,
                                        !.priority = prio, !.key = key]
        q == w.rq.queue
        nonPrio(j) == ~w.req[j].priority
        nonPriorityIndex == FindIndex(q, nonPrio)
        full == Len(q) >= maxQueueSize
        w1 == IF full /\ nonPriorityIndex # 0
              THEN [w EXCEPT !.rq.queue = RemoveAt(q, nonPriorityIndex),
                             !.req[q[nonPriorityIndex]].st = "rejected",
                             !.req[q[nonPriorityIndex]].error = "QueueOverflow"]
              ELSE w
        w2 == [w1 EXCEPT !.req[id] = IF full /\ nonPriorityIndex = 0
                                     THEN [request EXCEPT !.st = "rejected",
                                                          !.error = "QueueFull"]
                                     ELSE request,
                         !.rq.queue = IF prio THEN <<id>> \o @ ELSE Append(@, id)]
    IN  processQueue(w2)

(***************************************************************************)
(* RequestQueue.enqueue (lines 37-69): request object `id` for provider p. *)
(***************************************************************************)
enqueue(w, id, p, prio, key) ==
    LET request == [FreshRequest EXCEPT !.st = "queued", !.providerId = p,
                                        !.priority = prio, !.key = key]
        q == w.rq.queue
        nonPrio(j) == ~w.req[j].priority
        nonPriorityIndex == FindIndex(q, nonPrio)
        full == Len(q) >= maxQueueSize
    IN  IF full /\ nonPriorityIndex = 0
        THEN [w EXCEPT !.req[id] = [request EXCEPT !.st = "rejected", !.error = "QueueFull"]]
        ELSE LET w1 == IF full
                       THEN [w EXCEPT !.rq.queue = RemoveAt(q, nonPriorityIndex),
                                      !.req[q[nonPriorityIndex]].st = "rejected",
                                      !.req[q[nonPriorityIndex]].error = "QueueOverflow"]
                       ELSE w
                 w2 == [w1 EXCEPT !.req[id] = request,
                                  !.rq.queue = IF prio THEN <<id>> \o @ ELSE Append(@, id)]
             IN  processQueue(w2)

\* faulty variant: the successful execution is counted as an attempt
handleSuccess_CountsAttempt(w, j, result) ==
    processQueue([w EXCEPT !.rq.running = @ - 1,
                           !.rq.completed = @ + 1,
                           !.rq.stats.totalProcessed = @ + 1,
                           !.req[j].attempts = @ + 1,
                           !.req[j].st = "resolved",
                           !.req[j].value = result])

(***************************************************************************)
(* RequestQueue.handleSuccess (lines 139-150).                             *)
(***************************************************************************)
handleSuccess(w, j, result) ==
    processQueue([w EXCEPT !.rq.running = @ - 1,
                           !.rq.completed = @ + 1,
                           !.rq.stats.totalProcessed = @ + 1,
                           !.req[j].st = "resolved",
                           !.req[j].value = result])

\* faulty variant: one retry more than the budget
handleError_OneMore(w, j, error) ==
    LET attempts == w.req[j].attempts + 1
    IN  IF attempts <= retryAttempts
        THEN [w EXCEPT !.req[j].attempts = attempts,
                       !.req[j].st = "backoff",
                       !.req[j].retryAt = now + retryDelay * Pow2(attempts - 1)]
        ELSE processQueue([w EXCEPT !.req[j].attempts = attempts,
                                    !.rq.running = @ - 1,
                                    !.rq.failed = @ + 1,
                                    !.rq.stats.totalFailed = @ + 1,
                                    !.req[j].st = "rejected",
                                    !.req[j].error = error])

(***************************************************************************)
(* RequestQueue.handleError (lines 155-179), in its two runs: up to the    *)
(* backoff await, and the continuation after the backoff timer.            *)
(***************************************************************************)
handleError(w, j, error) ==
    LET attempts == w.req[j].attempts + 1
    IN  IF attempts < retryAttempts
        THEN [w EXCEPT !.req[j].attempts = attempts,
                       !.req[j].st = "backoff",
                       !.req[j].retryAt = now + retryDelay * Pow2(attempts - 1)]
        ELSE processQueue([w EXCEPT !.req[j].attempts = attempts,
                                    !.rq.running = @ - 1,
                                    !.rq.failed = @ + 1,
                                    !.rq.stats.totalFailed = @ + 1,
                                    !.req[j].st = "rejected",
                                    !.req[j].error = error])

handleErrorRetry(w, j) ==
    processQueue([w EXCEPT !.req[j].priority = TRUE,
                           !.req[j].st = "queued",
                           !.rq.queue = <<j>> \o @,
                           !.rq.running = @ - 1])

(***************************************************************************)
(* RequestQueue.clear, pause, resume (lines 206-226).                      *)
(***************************************************************************)
\* faulty variant: clear() empties the queue without rejecting its requests
clear_Silent(w) == [w EXCEPT !.rq.queue = <<>>]

clear(w) ==
    [w EXCEPT !.req = [j \in JobIds |->
                          IF InSeq(w.rq.queue, j)
                          THEN [w.req[j] EXCEPT !.st = "rejected", !.error = "QueueCleared"]
                          ELSE w.req[j]],
              !.rq.queue = <<>>]

pause(w) == [w EXCEPT !.rq.paused = TRUE]

resume(w) == processQueue([w EXCEPT !.rq.paused = FALSE])

(***************************************************************************)
(* DataIntegrityService (src/unnamed/part_000).                            *)
(*                                                                         *)
(* A JavaScript string is the sequence of its characters, '' and an absent *)
(* field both being <<>> (the code only tests them for truthiness). An     *)
(* item carries the fields title, href, chapter, author and _source, and   *)
(* the fields deduplicate adds to it; _processedAt, a timestamp nothing    *)
(* reads, is left out, and so are the statistics counters of the service.  *)
(***************************************************************************)
\* String.prototype.toLowerCase on the characters the items are made of
toLowerCase(s) ==
    [i \in 1..Len(s) |-> IF s[i] = "A" THEN "a" ELSE IF s[i] = "B" THEN "b" ELSE s[i]]

\* String.prototype.trim
RECURSIVE trim(_)
trim(s) ==
    IF s = <<>> THEN s
    ELSE IF Head(s) = " " THEN trim(Tail(s))
    ELSE IF s[Len(s)] = " " THEN trim(SubSeq(s, 1, Len(s) - 1))
    ELSE s

\* replace(/[^a-z0-9]/g, '')
IsAlnum(c) == c \in {"a", "b", "c", "1", "2"}

stripNonAlnum(s) == SelectSeq(s, IsAlnum)

\* Array.prototype.join('|')
RECURSIVE join(_)
join(parts) ==
    IF parts = <<>> THEN <<>>
    ELSE IF Len(parts) = 1 THEN parts[1]
    ELSE parts[1] \o <<"|">> \o join(Tail(parts))

\* crypto's md5 digest of the content, taken as collision-free: the digest
\* of a content is the content under the tag "md5"
md5(content) == <<"md5">> \o content

\* faulty variant: the field values are hashed as they are written
generateHash_CaseSensitive(data, fields) ==
    LET NonEmpty(v) == v # <<>>
        values == [i \in 1..Len(fields) |-> trim(data[fields[i]])]
    IN  md5(join(SelectSeq(values, NonEmpty)))

\* generateHash (lines 46-62), standard (non-serverless) profile
generateHash(data, fields) ==
    LET NonEmpty(v) == v # <<>>
        values == [i \in 1..Len(fields) |-> trim(toLowerCase(data[fields[i]]))]
    IN  md5(join(SelectSeq(values, NonEmpty)))

\* the part of a URL after its last '/' (href.split('/').filter(Boolean), last)
RECURSIVE lastUrlPart(_)
lastUrlPart(href) ==
    IF href = <<>> THEN <<>>
    ELSE IF href[Len(href)] = "/" THEN lastUrlPart(SubSeq(href, 1, Len(href) - 1))
    ELSE IF \E i \in 1..Len(href) : href[i] = "/"
    THEN LET i == CHOOSE i \in 1..Len(href) :
                      href[i] = "/" /\ \A k \in (i + 1)..Len(href) : href[k] # "/"
         IN  SubSeq(href, i + 1, Len(href))
    ELSE href

\* generateUniqueId (lines 83-94)
generateUniqueId(item) ==
    IF item.href # <<>>
    THEN <<"comic_">> \o (IF lastUrlPart(item.href) # <<>> THEN lastUrlPart(item.href)
                          ELSE generateHash(item, <<"title", "href">>))
    ELSE <<"comic_">> \o generateHash(item, <<"title", "href">>)

\* generateFuzzyKey (lines 234-241)
generateFuzzyKey(item) ==
    LET k == stripNonAlnum(toLowerCase(item.title))
    IN  SubSeq(k, 1, IF Len(k) < 20 THEN Len(k) ELSE 20)

\* String.prototype.includes
includes(longer, shorter) ==
    \E i \in 0..(Len(longer) - Len(shorter)) :
        SubSeq(longer, i + 1, i + Len(shorter)) = shorter

\* calculateSimilarity (lines 272-296), as the fraction num / den
calculateSimilarity(str1, str2) ==
    IF str1 = str2 THEN [num |-> 1, den |-> 1]
    ELSE IF str1 = <<>> \/ str2 = <<>> THEN [num |-> 0, den |-> 1]
    ELSE LET longer == IF Len(str1) > Len(str2) THEN str1 ELSE str2
             shorter == IF Len(str1) > Len(str2) THEN str2 ELSE str1
         IN  IF includes(longer, shorter)
             THEN [num |-> Len(shorter), den |-> Len(longer)]
             ELSE [num |-> Cardinality({i \in 1..Len(shorter) : longer[i] = shorter[i]}),
                   den |-> Len(longer)]

\* faulty variant: a similarity of exactly 0.85 is a match
isFuzzyMatch_Inclusive(item1, item2) ==
    LET title1 == stripNonAlnum(toLowerCase(item1.title))
        title2 == stripNonAlnum(toLowerCase(item2.title))
        s == calculateSimilarity(title1, title2)
    IN  IF title1 = <<>> \/ title2 = <<>> THEN FALSE
        ELSE IF title1 = title2 THEN TRUE
        ELSE s.num * 100 >= 85 * s.den

\* isFuzzyMatch (lines 249-264): similarity > 0.85
isFuzzyMatch(item1, item2) ==
    LET title1 == stripNonAlnum(toLowerCase(item1.title))
        title2 == stripNonAlnum(toLowerCase(item2.title))
        s == calculateSimilarity(title1, title2)
    IN  IF title1 = <<>> \/ title2 = <<>> THEN FALSE
        ELSE IF title1 = title2 THEN TRUE
        ELSE s.num * 100 > 85 * s.den

\* getQualityScore (lines 303-324) on the fields an item carries
getQualityScore(item) ==
    (IF Len(item.title) > 0 THEN 10 ELSE 0)
    + (IF Len(item.chapter) > 0 THEN 10 ELSE 0)
    + (IF Len(item.author) > 0 THEN 10 ELSE 0)
    + (IF Len(item.href) > 0 THEN 5 ELSE 0)

\* Array.prototype.filter((v, i, a) => a.indexOf(v) === i)
RECURSIVE unique(_)
unique(s) ==
    IF s = <<>> THEN s
    ELSE LET r == unique(SubSeq(s, 1, Len(s) - 1))
         IN  IF \E i \in 1..Len(r) : r[i] = s[Len(s)] THEN r ELSE Append(r, s[Len(s)])

\* mergeItems (lines 333-370); of the merge fields an item carries `chapter`
mergeItems(primary, secondary) ==
    LET src(it) == IF it._source # "" THEN it._source ELSE "unknown"
        chapter == IF primary.chapter = <<>> /\ secondary.chapter # <<>>
                   THEN secondary.chapter
                   ELSE IF Len(secondary.chapter) > Len(primary.chapter)
                   THEN secondary.chapter
                   ELSE primary.chapter
    IN  [primary EXCEPT
            !.chapter = chapter,
            !._sources = unique((IF primary._sources # <<>> THEN primary._sources
                                 ELSE <<src(primary)>>) \o <<src(secondary)>>)]

\* index of the entry of uniqueMap an item matches, 0 when none: the entry of
\* its hash, else the first entry in insertion order it fuzzy-matches
matchEntry(entries, item, hash) ==
    IF \E i \in 1..Len(entries) : entries[i].hash = hash
    THEN CHOOSE i \in 1..Len(entries) : entries[i].hash = hash
    ELSE IF generateFuzzyKey(item) # <<>>
            /\ \E i \in 1..Len(entries) : isFuzzyMatch(item, entries[i].item)
    THEN CHOOSE i \in 1..Len(entries) :
             /\ isFuzzyMatch(item, entries[i].item)
             /\ \A k \in 1..(i - 1) : ~isFuzzyMatch(item, entries[k].item)
    ELSE 0

\* the item a group keeps when `item` matches its `existing` item
\* (lines 187-199)
keepItem(existing, existingIndex, item, index, strategy) ==
    IF strategy = "merge" THEN mergeItems(existing, item)
    ELSE IF strategy = "best_quality"
    THEN IF getQualityScore(item) > getQualityScore(existing)
         THEN mergeItems(item, existing) ELSE existing
    ELSE IF strategy = "newest"
    THEN IF index > existingIndex THEN mergeItems(item, existing) ELSE existing
    ELSE existing

\* one turn of the forEach of deduplicate (lines 159-212), the item's hash
\* and the entry e it matches (0: none) given: d is [entries, duplicates],
\* entries being uniqueMap in insertion order
dedupeEntry(d, item, index, strategy, hash, e) ==
    IF e # 0
    THEN [entries |-> [d.entries EXCEPT
                          ![e].item = keepItem(@, d.entries[e].index, item, index, strategy)],
          duplicates |-> d.duplicates + 1]
    ELSE [entries |-> Append(d.entries,
                         [hash |-> hash, index |-> index,
                          item |-> [item EXCEPT !._id = generateUniqueId(item),
                                                !._hash = hash]]),
          duplicates |-> d.duplicates]

dedupeStep(d, item, index, fields, strategy) ==
    dedupeEntry(d, item, index, strategy, generateHash(item, fields),
                matchEntry(d.entries, item, generateHash(item, fields)))

RECURSIVE dedupeLoop(_, _, _, _, _)
dedupeLoop(d, items, index, fields, strategy) ==
    IF index > Len(items) THEN d
    ELSE dedupeLoop(dedupeStep(d, items[index], index, fields, strategy),
                    items, index + 1, fields, strategy)

\* the object deduplicate returns (lines 214-226)
dedupeResult(items, d) ==
    [items |-> [i \in 1..Len(d.entries) |-> d.entries[i].item],
     stats |-> [total |-> Len(items), unique |-> Len(d.entries),
                duplicates |-> d.duplicates]]

\* deduplicate (lines 143-227)
deduplicate(items, fields, strategy) ==
    dedupeResult(items,
                 dedupeLoop([entries |-> <<>>, duplicates |-> 0], items, 1, fields, strategy))

\* the (context, hash) pairs given to isProcessed and markProcessed: the
\* contexts are names, one with a ':' in it, the hashes are hex digits
LedgerContexts == {<<"d">>, <<"c", ":", "d">>}

LedgerHashes == {<<"1">>, <<"d", "1">>}

\* `${context}:${hash}` (lines 103, 124)
ledgerKey(context, hash) == context \o <<":">> \o hash

LedgerKeys == {ledgerKey(c, h) : c \in LedgerContexts, h \in LedgerHashes}

NoLedgerEntry == [present |-> FALSE, expiresAt |-> 0]

\* faulty variant: an entry is expired from the time of its expiry on
isProcessed_ExpiresEarly(dataHashes, hash, context) ==
    LET key == ledgerKey(context, hash)
        entry == dataHashes[key]
    IN  IF ~entry.present THEN [result |-> FALSE, dataHashes |-> dataHashes]
        ELSE IF now >= entry.expiresAt
        THEN [result |-> FALSE, dataHashes |-> [dataHashes EXCEPT ![key] = NoLedgerEntry]]
        ELSE [result |-> TRUE, dataHashes |-> dataHashes]

\* isProcessed (lines 102-115): the answer and the ledger it leaves
isProcessed(dataHashes, hash, context) ==
    LET key == ledgerKey(context, hash)
        entry == dataHashes[key]
    IN  IF ~entry.present THEN [result |-> FALSE, dataHashes |-> dataHashes]
        ELSE IF now > entry.expiresAt
        THEN [result |-> FALSE, dataHashes |-> [dataHashes EXCEPT ![key] = NoLedgerEntry]]
        ELSE [result |-> TRUE, dataHashes |-> dataHashes]

\* markProcessed (lines 123-135); the metadata of the entry is left out
markProcessed(dataHashes, hash, context) ==
    [dataHashes EXCEPT ![ledgerKey(context, hash)] =
        [present |-> TRUE, expiresAt |-> now + hashExpiry]]

\* cleanup (lines 541-549), the ledger's part of it
cleanup(dataHashes) ==
    [k \in LedgerKeys |->
        IF dataHashes[k].present /\ now > dataHashes[k].expiresAt
        THEN NoLedgerEntry ELSE dataHashes[k]]

\* isStale (lines 378-390); a missing entry is -1
isStale(freshnessMap, key, threshold) ==
    IF freshnessMap[key] = -1 THEN TRUE ELSE now - freshnessMap[key] > threshold

\* updateFreshness (lines 397-402)
updateFreshness(freshnessMap, key) == [freshnessMap EXCEPT ![key] = now]

\* faulty variant: the hashes of the current data are added to the stored set
detectNewItems_Accumulate(dedupeIndex, currentData, context) ==
    LET h(i) == generateHash(currentData[i], <<"title", "href">>)
    IN  [newItems |-> SelectSeq([i \in 1..Len(currentData) |->
                                    [hash |-> h(i), item |-> currentData[i]]],
                                LAMBDA x : x.hash \notin dedupeIndex[context]),
         dedupeIndex |-> [dedupeIndex EXCEPT ![context] =
                             @ \cup {h(i) : i \in 1..Len(currentData)}]]

\* detectNewItems (lines 484-523): the new items, and the index of the
\* context replaced by the hashes of the current data
detectNewItems(dedupeIndex, currentData, context) ==
    LET h(i) == generateHash(currentData[i], <<"title", "href">>)
    IN  [newItems |-> SelectSeq([i \in 1..Len(currentData) |->
                                    [hash |-> h(i), item |-> currentData[i]]],
                                LAMBDA x : x.hash \notin dedupeIndex[context]),
         dedupeIndex |-> [dedupeIndex EXCEPT ![context] =
                             {h(i) : i \in 1..Len(currentData)}]]

(***************************************************************************)
(* ScrapeOrchestrator (src/unnamed/part_001).                              *)
(*                                                                         *)
(* Callers use one operation, 'latest'; `args` is one token. A promise of  *)
(* executeScrape is named by the request it wraps. The Cache Store and the *)
(* provider registry are external: they are modelled from their contracts. *)
(***************************************************************************)
Operation == "latest"

Args == {"a1", "a2"}

\* generateOperationKey (lines 488-491): `${providerId}:${operation}:${args}`
generateOperationKey(operation, providerId, args) == <<providerId, operation, args>>

\* number of pages a scrapePaginated call may fetch (its maxPages option)
MaxPages == 3

\* the args of the scrape() call for page n: [n], as a token
PageArgs == [n \in 1..MaxPages |-> ToString(n)]

Keys == {generateOperationKey(Operation, p, a) :
            p \in Providers, a \in Args \cup {PageArgs[n] : n \in 1..MaxPages}}

\* `${providerId}_${operation}` (line 83)
FreshnessKeys == {<<p, Operation>> : p \in Providers}

\* the contexts of detectNewItems: `multi_${operation}` (lines 295, 305) and
\* 'default'
Contexts == {<<"multi", Operation>>, <<"default">>}

\* Cache Store contract: get(key) -> value | absent, set(key, value, ttl);
\* an entry is absent from its expiry on
NoEntry == [present |-> FALSE, data |-> <<>>, expiresAt |-> 0]

cacheGet(store, key) ==
    IF store[key].present /\ now < store[key].expiresAt
    THEN [hit |-> TRUE, data |-> store[key].data]
    ELSE [hit |-> FALSE, data |-> <<>>]

cacheSet(store, key, data, ttl) ==
    [store EXCEPT ![key] = [present |-> TRUE, data |-> data, expiresAt |-> now + ttl]]

\* provider_manager's listProviders(): the registered providers, in order
listProviders == <<"p1", "p2">>

\* what a scrape() call settles with: the wrapper object it builds, the raw
\* value of a promise it hands on, or an error
NoResult ==
    [kind |-> "none", success |-> FALSE, data |-> <<>>, source |-> "none",
     fromCache |-> FALSE, fresh |-> FALSE, error |-> "none"]

\* a scrape() call: st is unused | pending | done (fulfilled) | failed (rejected);
\* job is the request it awaits; owner the scrapeMultiProvider call that made it
FreshCall ==
    [st |-> "unused", providerId |-> "p1", args |-> "a1", forceRefresh |-> FALSE,
     skipCache |-> FALSE, deduplication |-> TRUE, job |-> 0, joined |-> FALSE,
     owner |-> 0, result |-> NoResult]

\* a scrapeMultiProvider() call: st is unused | pending | returned | thrown;
\* providers is the list the caller gave (<<>>: none), providersList the list
\* the call works on; outcome of a provider is none | pending | ok | failed |
\* timeout
FreshMulti ==
    [st |-> "unused", providers |-> <<>>, providersList |-> <<>>, args |-> "a1",
     failureThreshold |-> 0,
     outcome |-> [p \in Providers |-> "none"], call |-> [p \in Providers |-> 0],
     deadline |-> 0, success |-> FALSE, data |-> <<>>, successful |-> <<>>,
     failed |-> <<>>, newItems |-> 0, errors |-> 0, error |-> "none"]

\* a scrapePaginated() call: st is unused | pending | returned; call is, per
\* page, the scrape() call made for it (0: none)
FreshPag ==
    [st |-> "unused", providerId |-> "p1", startPage |-> 1, maxPages |-> 0,
     stopOnEmpty |-> TRUE, stopOnDuplicate |-> TRUE, currentPage |-> 1,
     consecutiveEmpty |-> 0, allData |-> <<>>, pageResults |-> <<>>,
     call |-> [n \in 1..MaxPages |-> 0], success |-> FALSE, data |-> <<>>]

NoHealth == [successCount |-> 0, failureCount |-> 0, consecutiveFailures |-> 0]

\* faulty variant: the cache is never found to hold a value
getCachedData_Miss(w, key) == [hit |-> FALSE, data |-> <<>>]

\* getCachedData (lines 496-499); the cache key is 'scrape_' + key
getCachedData(w, key) == cacheGet(w.cache, key)

\* cacheResult (lines 504-508); the TTL is the operation's stale threshold
cacheResult(w, key, data) == [w EXCEPT !.cache = cacheSet(@, key, data, staleThreshold)]

\* faulty variant: a success leaves consecutiveFailures as it is
updateProviderHealth_NoReset(w, providerId, success) ==
    [w EXCEPT !.orch.providerHealth[providerId] =
        IF success
        THEN [@ EXCEPT !.successCount = @ + 1]
        ELSE [@ EXCEPT !.failureCount = @ + 1, !.consecutiveFailures = @ + 1]]

\* updateProviderHealth (lines 513-535), without the response times
updateProviderHealth(w, providerId, success) ==
    [w EXCEPT !.orch.providerHealth[providerId] =
        IF success
        THEN [@ EXCEPT !.successCount = @ + 1, !.consecutiveFailures = 0]
        ELSE [@ EXCEPT !.failureCount = @ + 1, !.consecutiveFailures = @ + 1]]

\* isProviderHealthy (lines 540-552)
isProviderHealthy(w, providerId) ==
    LET health == w.orch.providerHealth[providerId]
        total == health.successCount + health.failureCount
    IN  IF health.consecutiveFailures >= 5 THEN FALSE
        ELSE IF total >= 10 /\ health.failureCount * 2 > total THEN FALSE
        ELSE TRUE

\* the default provider list of scrapeMultiProvider (lines 235-237)
healthyProviders(w) == SelectSeq(listProviders, LAMBDA p : isProviderHealthy(w, p))

\* logOperation (lines 557-567)
logOperation(w, entry) ==
    LET h == <<entry>> \o w.orch.operationHistory
    IN  [w EXCEPT !.orch.operationHistory =
            IF Len(h) > maxHistorySize THEN SubSeq(h, 1, Len(h) - 1) ELSE h]

\* faulty variant: scrape() does not look for an execution in flight
scrape_NoJoin(w, c, id, opt) ==
    LET operationKey == generateOperationKey(Operation, opt.providerId, opt.args)
        call == [FreshCall EXCEPT !.providerId = opt.providerId, !.args = opt.args,
                                  !.forceRefresh = opt.forceRefresh,
                                  !.skipCache = opt.skipCache,
                                  !.deduplication = opt.deduplication,
                                  !.owner = opt.owner]
        w1 == enqueue(w, id, opt.providerId, opt.priority, operationKey)
    IN  [w1 EXCEPT !.orch.calls[c] = [call EXCEPT !.st = "pending", !.job = id],
                   !.orch.activeOperations[operationKey] = id]

(***************************************************************************)
(* scrape up to its await (lines 48-113), for call c; `id` is the request  *)
(* object enqueue creates if the call gets that far. A return inside the   *)
(* try block runs the finally block (lines 196-198) before the call        *)
(* returns: the in-flight entry of the key is deleted.                     *)
(***************************************************************************)
scrape(w, c, id, opt) ==
    LET operationKey == generateOperationKey(Operation, opt.providerId, opt.args)
        call == [FreshCall EXCEPT !.providerId = opt.providerId, !.args = opt.args,
                                  !.forceRefresh = opt.forceRefresh,
                                  !.skipCache = opt.skipCache,
                                  !.deduplication = opt.deduplication,
                                  !.owner = opt.owner]
        cached == getCachedData(w, operationKey)
        freshnessKey == <<opt.providerId, Operation>>
        stale == isStale(w.integrity.freshnessMap, freshnessKey, staleThreshold)
        fromCache(fresh) ==
            [w EXCEPT !.orch.calls[c] =
                         [call EXCEPT !.st = "done",
                                      !.result = [NoResult EXCEPT
                                                     !.kind = "wrapper", !.success = TRUE,
                                                     !.data = cached.data,
                                                     !.source = "cache",
                                                     !.fromCache = TRUE, !.fresh = fresh]],
                      !.orch.activeOperations[operationKey] = 0]
    IN  IF w.orch.activeOperations[operationKey] # 0
        THEN [w EXCEPT !.orch.calls[c] =
                          [call EXCEPT !.st = "pending", !.joined = TRUE,
                                       !.job = w.orch.activeOperations[operationKey]],
                       !.orch.activeOperations[operationKey] = 0]
        ELSE IF ~opt.skipCache /\ ~opt.forceRefresh /\ cached.hit
        THEN fromCache(FALSE)
        ELSE IF ~stale /\ ~opt.forceRefresh /\ cached.hit
        THEN fromCache(TRUE)
        ELSE LET w1 == enqueue(w, id, opt.providerId, opt.priority, operationKey)
             IN  [w1 EXCEPT !.orch.calls[c] = [call EXCEPT !.st = "pending", !.job = id],
                            !.orch.activeOperations[operationKey] = id]

\* faulty variant: the processed result is never written to the cache
scrapeProcessed_NoCache(w, c, processedData) ==
    LET call == w.orch.calls[c]
        operationKey == generateOperationKey(Operation, call.providerId, call.args)
        freshnessKey == <<call.providerId, Operation>>
        w1 == [w EXCEPT !.integrity.freshnessMap = updateFreshness(@, freshnessKey)]
        w3 == updateProviderHealth(w1, call.providerId, TRUE)
        w4 == logOperation(w3, [providerId |-> call.providerId, success |-> TRUE,
                                error |-> "none"])
    IN  [w4 EXCEPT !.orch.calls[c].st = "done",
                   !.orch.calls[c].result =
                       [NoResult EXCEPT !.kind = "wrapper", !.success = TRUE,
                                        !.data = processedData, !.source = "scrape"],
                   !.orch.activeOperations[operationKey] = 0]

(***************************************************************************)
(* scrape after its await, the promise fulfilled with `result`, a list:    *)
(* the result is processed (lines 115-136), then recorded and returned     *)
(* (lines 138-180, and the finally block). validateIntegrity only logs:    *)
(* the fields of the items of this model are strings.                      *)
(***************************************************************************)
scrapeProcessed(w, c, processedData) ==
    LET call == w.orch.calls[c]
        operationKey == generateOperationKey(Operation, call.providerId, call.args)
        freshnessKey == <<call.providerId, Operation>>
        w1 == [w EXCEPT !.integrity.freshnessMap = updateFreshness(@, freshnessKey)]
        w2 == IF ~call.skipCache THEN cacheResult(w1, operationKey, processedData) ELSE w1
        w3 == updateProviderHealth(w2, call.providerId, TRUE)
        w4 == logOperation(w3, [providerId |-> call.providerId, success |-> TRUE,
                                error |-> "none"])
    IN  [w4 EXCEPT !.orch.calls[c].st = "done",
                   !.orch.calls[c].result =
                       [NoResult EXCEPT !.kind = "wrapper", !.success = TRUE,
                                        !.data = processedData, !.source = "scrape"],
                   !.orch.activeOperations[operationKey] = 0]

scrapeResolved(w, c, result) ==
    scrapeProcessed(w, c,
        IF w.orch.calls[c].deduplication
        THEN deduplicate(result, <<"title", "href">>, "best_quality").items
        ELSE result)

\* faulty variant: the rejected call does not record the failure of its source
scrapeRejected_NoHealth(w, c, error) ==
    LET call == w.orch.calls[c]
        operationKey == generateOperationKey(Operation, call.providerId, call.args)
        w2 == logOperation(w, [providerId |-> call.providerId, success |-> FALSE,
                               error |-> error])
    IN  [w2 EXCEPT !.orch.calls[c].st = "failed",
                   !.orch.calls[c].result = [NoResult EXCEPT !.kind = "error", !.error = error],
                   !.orch.activeOperations[operationKey] = 0]

\* faulty variant: the rejected call leaves its in-flight entry behind
scrapeRejected_KeepsMarker(w, c, error) ==
    LET call == w.orch.calls[c]
        w1 == updateProviderHealth(w, call.providerId, FALSE)
        w2 == logOperation(w1, [providerId |-> call.providerId, success |-> FALSE,
                                error |-> error])
    IN  [w2 EXCEPT !.orch.calls[c].st = "failed",
                   !.orch.calls[c].result = [NoResult EXCEPT !.kind = "error", !.error = error]]

\* scrape after its await, the promise rejected (lines 182-198)
scrapeRejected(w, c, error) ==
    LET call == w.orch.calls[c]
        operationKey == generateOperationKey(Operation, call.providerId, call.args)
        w1 == updateProviderHealth(w, call.providerId, FALSE)
        w2 == logOperation(w1, [providerId |-> call.providerId, success |-> FALSE,
                                error |-> error])
    IN  [w2 EXCEPT !.orch.calls[c].st = "failed",
                   !.orch.calls[c].result = [NoResult EXCEPT !.kind = "error", !.error = error],
                   !.orch.activeOperations[operationKey] = 0]

\* a call that returned the promise in the in-flight map (line 65) settles as
\* that promise does
joinerSettled(w, c, j) ==
    IF w.req[j].st = "resolved"
    THEN [w EXCEPT !.orch.calls[c].st = "done",
                   !.orch.calls[c].result =
                       [NoResult EXCEPT !.kind = "raw", !.data = w.req[j].value]]
    ELSE [w EXCEPT !.orch.calls[c].st = "failed",
                   !.orch.calls[c].result =
                       [NoResult EXCEPT !.kind = "error", !.error = w.req[j].error]]

\* the next scrape() call: its call record and, if it enqueues, its request
scrapeCall(w, opt) ==
    LET c == w.orch.nextCall
        id == w.nextId
        w1 == scrape(w, c, id, opt)
    IN  [w1 EXCEPT !.orch.nextCall = c + 1,
                   !.nextId = IF w1.req[id].st # "unused" THEN id + 1 ELSE id]

\* aggregateResults (lines 325-353): the items of every successful
\* provider's result.data, tagged with the provider; a result that is a bare
\* list has no `data` and is passed over
RECURSIVE aggregateResults(_, _, _)
aggregateResults(w, m, results) ==
    IF results = <<>> THEN <<>>
    ELSE LET providerId == Head(results)
             result == w.orch.calls[w.orch.multis[m].call[providerId]].result
             data == IF result.kind = "wrapper"
                     THEN [i \in 1..Len(result.data) |->
                              [result.data[i] EXCEPT !._source = providerId]]
                     ELSE <<>>
         IN  data \o aggregateResults(w, m, Tail(results))

\* scrapeMultiProvider from detectNewItems on (lines 302-319)
multiDetected(w, m, results, errors, aggregatedData, newItemsResult) ==
    [w EXCEPT !.integrity.dedupeIndex = newItemsResult.dedupeIndex,
              !.orch.multis[m] =
                  [@ EXCEPT !.st = "returned", !.success = Len(results) > 0,
                            !.data = aggregatedData,
                            !.successful = results, !.failed = errors,
                            !.newItems = Len(newItemsResult.newItems),
                            !.errors = Len(errors), !.deadline = 0]]

multiReturn(w, m, results, errors, aggregatedData) ==
    multiDetected(w, m, results, errors, aggregatedData,
                  detectNewItems(w.integrity.dedupeIndex, aggregatedData,
                                 <<"multi", Operation>>))

\* faulty variant: the call fails whenever no provider succeeded, whatever the threshold
multiSettled_Strict(w, m) ==
    LET mu == w.orch.multis[m]
        results == SelectSeq(mu.providersList, LAMBDA p : mu.outcome[p] = "ok")
        errors == SelectSeq(mu.providersList, LAMBDA p : mu.outcome[p] # "ok")
    IN  IF Len(results) = 0
        THEN [w EXCEPT !.orch.multis[m] =
                 [mu EXCEPT !.st = "thrown", !.error = "TooManyFailures",
                            !.errors = Len(errors), !.deadline = 0]]
        ELSE multiReturn(w, m, results, errors,
                 deduplicate(aggregateResults(w, m, results), <<"title", "href">>,
                             "best_quality").items)

(***************************************************************************)
(* scrapeMultiProvider after Promise.allSettled (lines 269-300).           *)
(* failureThreshold is in percent: errors / n > failureThreshold / 100.    *)
(***************************************************************************)
multiSettled(w, m) ==
    LET mu == w.orch.multis[m]
        results == SelectSeq(mu.providersList, LAMBDA p : mu.outcome[p] = "ok")
        errors == SelectSeq(mu.providersList, LAMBDA p : mu.outcome[p] # "ok")
    IN  IF Len(errors) * 100 > mu.failureThreshold * Len(mu.providersList)
           /\ Len(results) = 0
        THEN [w EXCEPT !.orch.multis[m] =
                 [mu EXCEPT !.st = "thrown", !.error = "TooManyFailures",
                            !.errors = Len(errors), !.deadline = 0]]
        ELSE multiReturn(w, m, results, errors,
                 deduplicate(aggregateResults(w, m, results), <<"title", "href">>,
                             "best_quality").items)

\* the scrape() calls of a scrapeMultiProvider call, in the order of its list
RECURSIVE multiScrapes(_, _, _)
multiScrapes(w, m, i) ==
    LET list == w.orch.multis[m].providersList
        opt == [providerId |-> list[i], args |-> w.orch.multis[m].args,
                forceRefresh |-> FALSE,
                skipCache |-> FALSE, priority |-> FALSE, deduplication |-> FALSE,
                owner |-> m]
        c == w.orch.nextCall
    IN  IF i > Len(list) THEN w
        ELSE multiScrapes([scrapeCall(w, opt) EXCEPT !.orch.multis[m].call[list[i]] = c],
                          m, i + 1)

\* faulty variant: a list given by the caller is filtered by health as well
scrapeMultiProvider_Filtered(w, m, providers, args, failureThreshold) ==
    LET healthy(p) == isProviderHealthy(w, p)
        providersList == SelectSeq(IF providers = <<>> THEN listProviders ELSE providers,
                                   healthy)
        mu == [FreshMulti EXCEPT !.providers = providers,
                                 !.providersList = providersList, !.args = args,
                                 !.failureThreshold = failureThreshold]
        inList(p) == \E i \in 1..Len(providersList) : providersList[i] = p
    IN  IF providersList = <<>>
        THEN [w EXCEPT !.orch.multis[m] =
                 [mu EXCEPT !.st = "thrown", !.error = "NoHealthyProviders"]]
        ELSE multiScrapes(
                 [w EXCEPT !.orch.multis[m] =
                     [mu EXCEPT !.st = "pending",
                                !.deadline = now + providerTimeout,
                                !.outcome = [p \in Providers |->
                                                IF inList(p) THEN "pending" ELSE "none"]]],
                 m, 1)

(***************************************************************************)
(* scrapeMultiProvider up to Promise.allSettled (lines 222-267), for call  *)
(* m: the provider list, then one scrape() and one timer per provider.     *)
(***************************************************************************)
scrapeMultiProvider(w, m, providers, args, failureThreshold) ==
    LET providersList == IF providers = <<>> THEN healthyProviders(w) ELSE providers
        mu == [FreshMulti EXCEPT !.providers = providers,
                                 !.providersList = providersList, !.args = args,
                                 !.failureThreshold = failureThreshold]
        inList(p) == \E i \in 1..Len(providersList) : providersList[i] = p
    IN  IF providersList = <<>>
        THEN [w EXCEPT !.orch.multis[m] =
                 [mu EXCEPT !.st = "thrown", !.error = "NoHealthyProviders"]]
        ELSE multiScrapes(
                 [w EXCEPT !.orch.multis[m] =
                     [mu EXCEPT !.st = "pending",
                                !.deadline = now + providerTimeout,
                                !.outcome = [p \in Providers |->
                                                IF inList(p) THEN "pending" ELSE "none"]]],
                 m, 1)

\* a provider's promise of a scrapeMultiProvider call settles as its scrape()
\* call does (lines 250-266); when none is left pending the call goes on
multiCollectOne(w, m) ==
    LET mu == w.orch.multis[m]
        outcome == [p \in Providers |->
                      IF mu.outcome[p] = "pending"
                      THEN CASE w.orch.calls[mu.call[p]].st = "done" -> "ok"
                             [] w.orch.calls[mu.call[p]].st = "failed" -> "failed"
                             [] OTHER -> "pending"
                      ELSE mu.outcome[p]]
        w1 == [w EXCEPT !.orch.multis[m].outcome = outcome]
    IN  IF mu.st # "pending" THEN w
        ELSE IF \E p \in Providers : outcome[p] = "pending" THEN w1
        ELSE multiSettled(w1, m)

RECURSIVE multiCollect(_, _)
multiCollect(w, m) ==
    IF m > MaxMulti THEN w ELSE multiCollect(multiCollectOne(w, m), m + 1)

\* faulty variant: a provider that has not answered in time counts as a success
multiTimeout_AsSuccess(w, m) ==
    [w EXCEPT !.orch.multis[m].outcome =
        [p \in Providers |-> IF @[p] = "pending" THEN "ok" ELSE @[p]]]

\* the timers of a scrapeMultiProvider call fire (lines 258-260): every
\* provider still pending has failed with 'Provider timeout'
multiTimeout(w, m) ==
    [w EXCEPT !.orch.multis[m].outcome =
        [p \in Providers |-> IF @[p] = "pending" THEN "timeout" ELSE @[p]]]

\* the continuations of the scrape() calls that wait for request j, settled:
\* the call that enqueued it, then the calls that joined it
RECURSIVE joinersSettled(_, _, _)
joinersSettled(w, cs, j) ==
    IF cs = {} THEN w
    ELSE LET c == CHOOSE c \in cs : \A d \in cs : c <= d
         IN  joinersSettled(joinerSettled(w, c, j), cs \ {c}, j)

jobSettled(w, j) ==
    LET waiting == {c \in CallIds : w.orch.calls[c].st = "pending" /\ w.orch.calls[c].job = j}
        starters == {c \in waiting : ~w.orch.calls[c].joined}
        w1 == IF starters = {} THEN w
              ELSE LET c == CHOOSE c \in starters : TRUE
                   IN  IF w.req[j].st = "resolved"
                       THEN scrapeResolved(w, c, w.req[j].value)
                       ELSE scrapeRejected(w, c, w.req[j].error)
    IN  joinersSettled(w1, waiting \ starters, j)

RECURSIVE jobsSettled(_, _)
jobsSettled(w, js) ==
    IF js = {} THEN w
    ELSE LET j == CHOOSE j \in js : \A k \in js : j <= k
         IN  jobsSettled(jobSettled(w, j), js \ {j})

(***************************************************************************)
(* scrapePaginated (lines 360-483), for call g. The pages are lists: a     *)
(* result whose data is an object with a `data` list and page counters is  *)
(* not modelled.                                                           *)
(***************************************************************************)
\* pageData of a scrape() result (lines 387-400): result.data when it is a
\* list; a result that is a bare list has no `data`
pageDataOf(result) == IF result.kind = "wrapper" THEN result.data ELSE <<>>

\* the options of the scrape() call for the current page (lines 379-385)
pageOptions(pg) ==
    [providerId |-> pg.providerId, args |-> PageArgs[pg.currentPage],
     forceRefresh |-> FALSE, skipCache |-> pg.currentPage > pg.startPage,
     priority |-> FALSE, deduplication |-> FALSE, owner |-> 0]

\* after the loop (lines 463-482)
pagFinish(w, g, pg) ==
    [w EXCEPT !.orch.pags[g] =
        [pg EXCEPT !.st = "returned",
                   !.success = Len(pg.allData) > 0,
                   !.data = deduplicate(pg.allData, <<"title", "href">>,
                                        "best_quality").items]]

\* faulty variant: the loop goes one page beyond startPage + maxPages - 1
pagRequest_OneMore(w, g) ==
    IF /\ w.orch.pags[g].currentPage
             <= w.orch.pags[g].startPage + w.orch.pags[g].maxPages
       /\ w.orch.pags[g].currentPage <= MaxPages
    THEN [scrapeCall(w, pageOptions(w.orch.pags[g])) EXCEPT
             !.orch.pags[g].call[w.orch.pags[g].currentPage] = w.orch.nextCall]
    ELSE pagFinish(w, g, w.orch.pags[g])

\* the head of the loop (lines 377-385): the scrape() call for the current
\* page, or the end of the loop
pagRequest(w, g) ==
    IF w.orch.pags[g].currentPage
          <= w.orch.pags[g].startPage + w.orch.pags[g].maxPages - 1
    THEN [scrapeCall(w, pageOptions(w.orch.pags[g])) EXCEPT
             !.orch.pags[g].call[w.orch.pags[g].currentPage] = w.orch.nextCall]
    ELSE pagFinish(w, g, w.orch.pags[g])

\* the duplicate check of a page (lines 414-427): the rate
\* 1 - newItems / pageData.length is at least duplicateThreshold
pagDuplicates(pg, pageData) ==
    /\ pg.stopOnDuplicate
    /\ Len(pg.allData) > 0
    /\ Len(pageData) > 0
    /\ (Len(pageData)
           - (Len(deduplicate(pg.allData \o pageData, <<"title", "href">>, "first").items)
                 - Len(pg.allData))) * 100
          >= duplicateThreshold * Len(pageData)

\* faulty variant: the loop stops at the third consecutive empty page
pagPage_ThreeEmpty(w, g, pg, pageData) ==
    IF Len(pageData) = 0 /\ pg.stopOnEmpty /\ pg.consecutiveEmpty + 1 >= 3
    THEN pagFinish(w, g, [pg EXCEPT !.consecutiveEmpty = @ + 1])
    ELSE IF pagDuplicates(pg, pageData)
    THEN pagFinish(w, g, [pg EXCEPT !.consecutiveEmpty = 0])
    ELSE pagRequest(
             [w EXCEPT !.orch.pags[g] =
                 [pg EXCEPT !.consecutiveEmpty = IF Len(pageData) = 0 THEN @ + 1 ELSE 0,
                            !.allData = @ \o pageData,
                            !.pageResults = Append(@, [page |-> pg.currentPage,
                                                       count |-> Len(pageData),
                                                       success |-> TRUE]),
                            !.currentPage = @ + 1]],
             g)

\* the body of the loop after a page has been fetched (lines 387-443)
pagPage(w, g, pg, pageData) ==
    IF Len(pageData) = 0 /\ pg.stopOnEmpty /\ pg.consecutiveEmpty + 1 >= 2
    THEN pagFinish(w, g, [pg EXCEPT !.consecutiveEmpty = @ + 1])
    ELSE IF pagDuplicates(pg, pageData)
    THEN pagFinish(w, g, [pg EXCEPT !.consecutiveEmpty = 0])
    ELSE pagRequest(
             [w EXCEPT !.orch.pags[g] =
                 [pg EXCEPT !.consecutiveEmpty = IF Len(pageData) = 0 THEN @ + 1 ELSE 0,
                            !.allData = @ \o pageData,
                            !.pageResults = Append(@, [page |-> pg.currentPage,
                                                       count |-> Len(pageData),
                                                       success |-> TRUE]),
                            !.currentPage = @ + 1]],
             g)

\* faulty variant: a failed page never ends the loop
pagFailed_AlwaysContinues(w, g, pg) ==
    pagRequest(
        [w EXCEPT !.orch.pags[g] =
            [pg EXCEPT !.pageResults = Append(@, [page |-> pg.currentPage,
                                                  count |-> 0, success |-> FALSE]),
                       !.currentPage = @ + 1]],
        g)

\* the catch block of the loop (lines 445-460)
pagFailed(w, g, pg) ==
    IF pg.stopOnEmpty
    THEN pagFinish(w, g, [pg EXCEPT !.pageResults =
                                        Append(@, [page |-> pg.currentPage, count |-> 0,
                                                   success |-> FALSE])])
    ELSE pagRequest(
             [w EXCEPT !.orch.pags[g] =
                 [pg EXCEPT !.pageResults = Append(@, [page |-> pg.currentPage,
                                                       count |-> 0, success |-> FALSE]),
                            !.currentPage = @ + 1]],
             g)

\* the scrape() call of the current page has settled
pagSettled(w, g) ==
    IF w.orch.calls[w.orch.pags[g].call[w.orch.pags[g].currentPage]].st = "failed"
    THEN pagFailed(w, g, w.orch.pags[g])
    ELSE pagPage(w, g, w.orch.pags[g],
                 pageDataOf(w.orch.calls[w.orch.pags[g].call[
                                w.orch.pags[g].currentPage]].result))

\* scrapePaginated up to its first await (lines 360-385)
scrapePaginated(w, g, providerId, startPage, maxPages, stopOnEmpty, stopOnDuplicate) ==
    pagRequest([w EXCEPT !.orch.pags[g] =
                   [FreshPag EXCEPT !.st = "pending", !.providerId = providerId,
                                    !.startPage = startPage, !.maxPages = maxPages,
                                    !.stopOnEmpty = stopOnEmpty,
                                    !.stopOnDuplicate = stopOnDuplicate,
                                    !.currentPage = startPage]],
               g)

\* the scrapePaginated calls whose page has settled go on
pagReady(w, g) ==
    /\ w.orch.pags[g].st = "pending"
    /\ w.orch.calls[w.orch.pags[g].call[w.orch.pags[g].currentPage]].st
          \in {"done", "failed"}

RECURSIVE pagCollect(_, _)
pagCollect(w, g) ==
    IF g > MaxPag THEN w
    ELSE pagCollect(IF pagReady(w, g) THEN pagSettled(w, g) ELSE w, g + 1)

\* The promise reactions that follow a handler run, before anything else
\* runs: w0 is the state before the run, w the state after it. What a
\* reaction does (a scrape() call of the next page) may make further
\* reactions ready.
RECURSIVE deliver(_, _)
deliverMore(w1, w2) == IF w2 = w1 THEN w1 ELSE deliver(w1, w2)

deliverPag(w1) == deliverMore(w1, pagCollect(w1, 1))

deliver(w0, w) ==
    deliverPag(
        multiCollect(
            jobsSettled(w, {j \in JobIds : /\ w0.req[j].st \notin {"resolved", "rejected"}
                                           /\ w.req[j].st \in {"resolved", "rejected"}}),
            1))

\* no call made to the DataIntegrityService on its own
NoPure == [phase |-> "none"]

(***************************************************************************)
(* The rate limit of the MangaDex adapter (src/unnamed/part_003, lines     *)
(* 19-39). An apiRequest call is idle (not made), waiting (at the await of *)
(* line 37, its timer due at wakeAt) or sent (past line 39: it has written *)
(* RATE_LIMIT.lastRequestTime and called axios.get).                       *)
(***************************************************************************)
InitMangadex ==
    [RATE_LIMIT |-> [lastRequestTime |-> 0],
     calls |-> [a \in ApiIds |-> [st |-> "idle", wakeAt |-> 0]]]

\* lines 39-41: the time of the request is recorded and the request issued
apiSend(md, a) ==
    [md EXCEPT !.RATE_LIMIT.lastRequestTime = now,
               !.calls[a] = [st |-> "sent", wakeAt |-> 0]]

\* apiRequest up to its first await (lines 32-41)
apiRequest(md, a) ==
    LET timeSinceLastRequest == now - md.RATE_LIMIT.lastRequestTime
    IN  IF timeSinceLastRequest < minInterval
        THEN [md EXCEPT !.calls[a] =
                 [st |-> "waiting", wakeAt |-> now + (minInterval - timeSinceLastRequest)]]
        ELSE apiSend(md, a)

(***************************************************************************)
(* Initial state: the RequestQueue after its constructor (lines 7-29), the *)
(* ScrapeOrchestrator and the DataIntegrityService after theirs, the Cache *)
(* Store empty. stats.avgProcessingTime and stats.lastProcessed of the     *)
(* queue are left out: nothing reads them but getStats.                    *)
(***************************************************************************)
InitOrch ==
    [calls |-> [c \in CallIds |-> FreshCall],
     nextCall |-> 1,
     multis |-> [m \in MultiIds |-> FreshMulti],
     nextMulti |-> 1,
     pags |-> [g \in PagIds |-> FreshPag],
     nextPag |-> 1,
     activeOperations |-> [k \in Keys |-> 0],
     providerHealth |-> [p \in Providers |-> NoHealth],
     operationHistory |-> <<>>]

InitRequestQueue ==
    /\ rq = [queue |-> <<>>, running |-> 0, completed |-> 0, failed |-> 0,
             paused |-> FALSE,
             stats |-> [totalProcessed |-> 0, totalFailed |-> 0],
             providerLastRequest |-> [p \in Providers |-> 0]]
    /\ req = [j \in JobIds |-> FreshRequest]
    /\ nextId = 1
    /\ timers = {}
    /\ clock = 0
    /\ hist = [execs |-> [j \in JobIds |-> 0],
               fails |-> [j \in JobIds |-> 0],
               lastError |-> [j \in JobIds |-> "none"],
               succeeded |-> {},
               abandoned |-> [j \in JobIds |-> 0],
               clearedBelow |-> 1,
               marked |-> [x \in LedgerContexts \X LedgerHashes |-> -1],
               lastDispatch |-> [p \in Providers |-> -1]]
    /\ integrity = [freshnessMap |-> [k \in FreshnessKeys |-> -1],
                    dedupeIndex |-> [x \in Contexts |-> {}],
                    dataHashes |-> [k \in LedgerKeys |-> NoLedgerEntry]]
    /\ cache = [k \in Keys |-> NoEntry]
    /\ mangadex = InitMangadex

InitQueue == InitRequestQueue /\ orch = InitOrch /\ pure = NoPure

\* a provider that has failed five times in a row since the process started
FiveFailures == [successCount |-> 0, failureCount |-> 5, consecutiveFailures |-> 5]

\* the service some time after its start: the providers may have failed
\* five times in a row
InitMulti ==
    /\ InitRequestQueue
    /\ pure = NoPure
    /\ \E h \in {NoHealth, FiveFailures} :
           orch = [InitOrch EXCEPT !.providerHealth = [p \in Providers |-> h]]

\* the requests a handler run has dispatched (their task was started)
Dispatched(old, new) == {j \in JobIds : old[j].st # "running" /\ new[j].st = "running"}

\* The handler run's result becomes the next state. The timer fields of a
\* request are cleared once their timer no longer matters.
Commit(w) ==
    /\ rq' = w.rq
    /\ req' = [j \in JobIds |->
                 [w.req[j] EXCEPT !.startedAt = IF w.req[j].st = "running" THEN @ ELSE 0,
                                  !.retryAt = IF w.req[j].st = "backoff" THEN @ ELSE 0]]
    /\ timers' = w.timers
    /\ nextId' = w.nextId
    /\ orch' = w.orch
    /\ integrity' = w.integrity
    /\ cache' = w.cache

\* observation of the dispatches of a handler run
Observe(w, h) ==
    hist' = [h EXCEPT
               !.execs = [j \in JobIds |->
                            IF j \in Dispatched(req, w.req) THEN @[j] + 1 ELSE @[j]],
               !.lastDispatch = [p \in Providers |->
                            IF \E j \in Dispatched(req, w.req) : w.req[j].providerId = p
                            THEN now ELSE @[p]]]

\* one run of a handler and its promise reactions, w the state it leaves
Step(w, h) == Commit(w) /\ Observe(w, h) /\ UNCHANGED <<pure, mangadex>>

\* the items the Source Adapters return
Item(title, href, chapter) ==
    [title |-> title, href |-> href, chapter |-> chapter, author |-> <<>>,
     _source |-> "", _sources |-> <<>>, _id |-> <<>>, _hash |-> <<>>]

\* an item that names its author
ItemBy(title, href, chapter, author) == [Item(title, href, chapter) EXCEPT !.author = author]

\* what the task given to enqueue for request j resolves with when it
\* succeeds: a list of items, with a duplicate in it for every other request
TaskResult(j) ==
    IF j % 2 = 1
    THEN <<Item(<<"A", "b", "c">>, <<"/", "a">>, <<>>),
           Item(<<"a", "b", "c", " ">>, <<"/", "a">>, <<"1">>)>>
    ELSE <<Item(<<"a", "b", "-", "c">>, <<"/", "b">>, <<>>)>>

\* the error the task of request j rejects with when its n-th execution
\* fails: the kinds alternate over the requests and their executions
TaskError(j, n) == ErrorKinds[((j + n) % Len(ErrorKinds)) + 1]

(***************************************************************************)
(* Actions. Each is one run of a handler followed by the promise reactions *)
(* it has made ready.                                                      *)
(***************************************************************************)
\* a caller submits a task to the queue
Enqueue(p, prio) ==
    /\ nextId <= MaxJobs
    /\ Step(deliver(World, [enqueue(World, nextId, p, prio, NoKey) EXCEPT
                                !.nextId = nextId + 1]),
            hist)
    /\ UNCHANGED clock

\* a caller calls scrape()
Scrape(opt) ==
    /\ nextId <= MaxJobs
    /\ orch.nextCall <= MaxCalls
    /\ Step(deliver(World, scrapeCall(World, opt)),
            hist)
    /\ UNCHANGED clock

\* a caller calls scrapeMultiProvider()
MultiCall(providers, args, failureThreshold) ==
    /\ orch.nextMulti <= MaxMulti
    /\ nextId + Len(listProviders) - 1 <= MaxJobs
    /\ orch.nextCall + Len(listProviders) - 1 <= MaxCalls
    /\ Step(deliver(World,
                     scrapeMultiProvider([World EXCEPT !.orch.nextMulti = @ + 1],
                                         orch.nextMulti, providers, args, failureThreshold)),
            hist)
    /\ UNCHANGED clock

\* the provider timers of a scrapeMultiProvider call fire
MultiTimeout(m) ==
    /\ orch.multis[m].st = "pending"
    /\ now >= orch.multis[m].deadline
    /\ Step(deliver(World, multiTimeout(World, m)),
            hist)
    /\ UNCHANGED clock

\* the task of a running request resolves before its timeout fired
TaskSucceed(j) ==
    /\ req[j].st = "running"
    /\ Step(deliver(World, handleSuccess(World, j, TaskResult(j))),
            [hist EXCEPT !.succeeded = @ \cup {j}])
    /\ UNCHANGED clock

\* the task of a running request resolves with an empty list
TaskSucceedEmpty(j) ==
    /\ req[j].st = "running"
    /\ Step(deliver(World, handleSuccess(World, j, <<>>)),
            [hist EXCEPT !.succeeded = @ \cup {j}])
    /\ UNCHANGED clock

\* the pages the pending paginated calls before g may still request: their
\* requests and scrape calls are kept free
RECURSIVE pagReserved(_)
pagReserved(g) ==
    IF g = 0 THEN 0
    ELSE pagReserved(g - 1)
         + (IF orch.pags[g].st = "pending"
            THEN orch.pags[g].startPage + orch.pags[g].maxPages - 1
                 - orch.pags[g].currentPage
            ELSE 0)

\* a caller calls scrapePaginated()
PaginatedCall(providerId, startPage, maxPages, stopOnEmpty, stopOnDuplicate) ==
    /\ orch.nextPag <= MaxPag
    /\ nextId + maxPages - 1 + pagReserved(orch.nextPag - 1) <= MaxJobs
    /\ orch.nextCall + maxPages - 1 + pagReserved(orch.nextPag - 1) <= MaxCalls
    /\ Step(deliver(World,
                     scrapePaginated([World EXCEPT !.orch.nextPag = @ + 1],
                                     orch.nextPag, providerId, startPage, maxPages,
                                     stopOnEmpty, stopOnDuplicate)),
            hist)
    /\ UNCHANGED clock

\* the task of a running request rejects before its timeout fired
TaskFail(j) ==
    /\ req[j].st = "running"
    /\ Step(deliver(World, handleError(World, j, TaskError(j, hist.execs[j]))),
            [hist EXCEPT !.fails[j] = @ + 1,
                         !.lastError[j] = TaskError(j, hist.execs[j])])
    /\ UNCHANGED clock

\* the timeout of Promise.race fires first (lines 125-127): the race is
\* settled, the invocation of request.fn() it was racing against goes on
TaskTimeout(j) ==
    /\ req[j].st = "running"
    /\ now >= req[j].startedAt + timeout
    /\ Step(deliver(World, handleError(World, j, "Timeout")),
            [hist EXCEPT !.fails[j] = @ + 1, !.lastError[j] = "Timeout",
                         !.abandoned[j] = @ + 1])
    /\ UNCHANGED clock

\* an invocation of request.fn() whose race the timeout has won comes to its
\* end: Promise.race has settled, nothing of the queue reacts to it
AbandonedEnds(j) ==
    /\ hist.abandoned[j] > 0
    /\ hist' = [hist EXCEPT !.abandoned[j] = @ - 1]
    /\ UNCHANGED <<clock, rq, req, nextId, timers, orch, integrity, cache, pure, mangadex>>

\* the backoff timer of handleError fires (line 164)
RetryTimer(j) ==
    /\ req[j].st = "backoff"
    /\ now >= req[j].retryAt
    /\ Step(deliver(World, handleErrorRetry(World, j)),
            hist)
    /\ UNCHANGED clock

\* a re-check timer of getNextRequest fires (line 105)
RecheckTimer(d) ==
    /\ d \in timers
    /\ now >= d
    /\ Step(deliver(World, processQueue([World EXCEPT !.timers = @ \ {d}])),
            hist)
    /\ UNCHANGED clock

\* a caller calls clear(); the requests created so far are those below nextId
Clear ==
    /\ rq.queue # <<>>
    /\ Step(deliver(World, clear(World)), [hist EXCEPT !.clearedBelow = nextId])
    /\ UNCHANGED clock

\* pause(); in this specification it is called before the first submission
\* only, resume() at any time
Pause ==
    /\ ~rq.paused
    /\ nextId = 1
    /\ Step(pause(World), hist)
    /\ UNCHANGED clock

\* pause() called at any time
PauseAnytime ==
    /\ ~rq.paused
    /\ Step(pause(World), hist)
    /\ UNCHANGED clock

Resume ==
    /\ rq.paused
    /\ Step(deliver(World, resume(World)), hist)
    /\ UNCHANGED clock

\* One tick passes: every timestamp is one tick older, and a cache entry that
\* has reached its expiry is gone.
Aging ==
    /\ rq' = [rq EXCEPT !.providerLastRequest =
                  [p \in Providers |-> Older(@[p], providerMinDelay)]]
    /\ req' = [j \in JobIds |->
                 [req[j] EXCEPT
                    !.startedAt = IF req[j].st = "running" THEN Older(@, timeout) ELSE @,
                    !.retryAt = IF req[j].st = "backoff" THEN Older(@, 0) ELSE @]]
    /\ timers' = {Older(d, 0) : d \in timers}
    /\ hist' = [hist EXCEPT
                  !.lastDispatch =
                      [p \in Providers |->
                          IF @[p] = -1 THEN -1 ELSE Older(@[p], providerMinDelay)],
                  !.marked =
                      [x \in LedgerContexts \X LedgerHashes |->
                          IF @[x] = -1 \/ @[x] > hashExpiry THEN @[x] ELSE @[x] + 1]]
    /\ orch' = [orch EXCEPT !.multis =
                  [m \in MultiIds |->
                      [@[m] EXCEPT !.deadline = IF orch.multis[m].st = "pending"
                                                THEN Older(@, 0) ELSE @]]]
    /\ integrity' = [integrity EXCEPT
                  !.freshnessMap =
                      [k \in FreshnessKeys |->
                          IF @[k] = -1 THEN -1 ELSE Older(@[k], staleThreshold + 1)],
                  !.dataHashes =
                      [k \in LedgerKeys |->
                          IF @[k].present
                          THEN [@[k] EXCEPT !.expiresAt = Older(@, 1)] ELSE @[k]]]
    /\ cache' = [k \in Keys |->
                  IF cache[k].present /\ Older(cache[k].expiresAt, 0) > now
                  THEN [cache[k] EXCEPT !.expiresAt = Older(@, 0)]
                  ELSE NoEntry]
    /\ UNCHANGED <<nextId, pure, mangadex>>

\* one tick of the clock passes, up to the n-th
TickUpTo(n) ==
    /\ clock < n
    /\ clock' = clock + 1
    /\ Aging

\* one tick passes, the ticks not being counted: time without an end
TickOn ==
    /\ clock' = clock
    /\ Aging

Tick == TickUpTo(IF orch.nextPag > 1 THEN MaxPagTicks ELSE MaxTicks)

\* the callbacks of the queue: settled tasks and fired timers
QueueCallbacks ==
    \/ \E j \in JobIds : TaskSucceed(j)
    \/ \E j \in JobIds : TaskFail(j)
    \/ \E j \in JobIds : TaskTimeout(j)
    \/ \E j \in JobIds : RetryTimer(j)
    \/ \E d \in Deadlines : RecheckTimer(d)

QueueInternal ==
    \/ QueueCallbacks
    \/ Tick

\* the RequestQueue used on its own
Next ==
    \/ \E p \in Providers, prio \in BOOLEAN : Enqueue(p, prio)
    \/ Pause
    \/ Resume
    \/ QueueInternal

Spec == InitQueue /\ [][Next]_vars

\* the RequestQueue with its control operations called at any time
NextControl ==
    \/ \E p \in Providers, prio \in BOOLEAN : Enqueue(p, prio)
    \/ PauseAnytime
    \/ Resume
    \/ Clear
    \/ QueueInternal

SpecControl == InitQueue /\ [][NextControl]_vars

\* the RequestQueue with the task invocations followed to their end, over a
\* time long enough for a request that timed out to be retried
NextTasks ==
    \/ \E p \in Providers : Enqueue(p, FALSE)
    \/ QueueCallbacks
    \/ \E j \in JobIds : AbandonedEnds(j)
    \/ TickUpTo(MaxTaskTicks)

SpecTasks == InitQueue /\ [][NextTasks]_vars

\* The RequestQueue of one source over time without an end: a task need
\* not settle on its own.
NextLive ==
    \/ \E prio \in BOOLEAN : Enqueue("p1", prio)
    \/ Pause
    \/ Resume
    \/ Clear
    \/ QueueCallbacks
    \/ TickOn

\* the conditions under which the timer callbacks can run
TimeoutDue(j) == req[j].st = "running" /\ now >= req[j].startedAt + timeout

BackoffDue(j) == req[j].st = "backoff" /\ now >= req[j].retryAt

RecheckDue(d) == d \in timers /\ now >= d

\* The scheduling of the event loop: time passes, every setTimeout callback
\* runs once its delay has passed, and a paused queue is resumed. Each of
\* TaskTimeout(j), RetryTimer(j), RecheckTimer(d) and Resume ends the
\* condition under which it can run, so its weak fairness is that the
\* condition is false again and again.
FairLive ==
    /\ WF_vars(TickOn)
    /\ \A j \in JobIds : []<>~TimeoutDue(j)
    /\ \A j \in JobIds : []<>~BackoffDue(j)
    /\ \A d \in Deadlines : []<>~RecheckDue(d)
    /\ []<>~rq.paused

SpecLive == InitQueue /\ [][NextLive]_vars /\ FairLive

\* the options callers of scrape() use: forceRefresh and skipCache are
\* <<FALSE, FALSE>>, <<TRUE, FALSE>> or <<FALSE, TRUE>>
ScrapeFlags == {<<FALSE, FALSE>>, <<TRUE, FALSE>>, <<FALSE, TRUE>>}

ScrapeOptions ==
    {[providerId |-> "p1", args |-> a, forceRefresh |-> f[1], skipCache |-> f[2],
      priority |-> FALSE, deduplication |-> TRUE, owner |-> 0] :
        a \in Args, f \in ScrapeFlags}

\* callers of scrape()
NextScrape ==
    \/ \E opt \in ScrapeOptions : Scrape(opt)
    \/ QueueInternal

SpecScrape == InitQueue /\ [][NextScrape]_vars

\* callers of scrape() for one key, with every combination of the flags
\* forceRefresh, skipCache and deduplication
ScrapeOptionsAll ==
    {[providerId |-> "p1", args |-> "a1", forceRefresh |-> f, skipCache |-> s,
      priority |-> FALSE, deduplication |-> d, owner |-> 0] :
        f \in BOOLEAN, s \in BOOLEAN, d \in BOOLEAN}

NextScrapeAll ==
    \/ \E opt \in ScrapeOptionsAll : Scrape(opt)
    \/ QueueInternal

SpecScrapeAll == InitQueue /\ [][NextScrapeAll]_vars

\* callers of scrape() while the queue is paused, resumed and cleared
NextScrapeControl ==
    \/ \E opt \in ScrapeOptions : Scrape(opt)
    \/ Pause
    \/ Resume
    \/ Clear
    \/ QueueInternal

SpecScrapeControl == InitQueue /\ [][NextScrapeControl]_vars

\* the provider lists and thresholds (in percent) callers of
\* scrapeMultiProvider() use; the empty list asks for the healthy providers
ProviderLists == {<<>>, <<"p1">>}

FailureThresholds == {50, 100}

\* callers of scrapeMultiProvider()
NextMulti ==
    \/ \E providers \in ProviderLists, args \in Args, th \in FailureThresholds :
           MultiCall(providers, args, th)
    \/ \E m \in MultiIds : MultiTimeout(m)
    \/ QueueInternal

SpecMulti == InitMulti /\ [][NextMulti]_vars

\* callers of scrapePaginated(): up to MaxPages pages of one provider
NextPaginated ==
    \/ \E maxPages \in 1..MaxPages, stopOnEmpty \in BOOLEAN, stopOnDuplicate \in BOOLEAN :
           PaginatedCall("p1", 1, maxPages, stopOnEmpty, stopOnDuplicate)
    \/ \E j \in JobIds : TaskSucceedEmpty(j)
    \/ QueueInternal

SpecPaginated == InitQueue /\ [][NextPaginated]_vars

(***************************************************************************)
(* The health record of the sources on its own: the scrape() calls of a    *)
(* source end in any order of successes and failures, and each end is      *)
(* recorded by updateProviderHealth (lines 161, 184).                      *)
(***************************************************************************)
\* number of scrape() outcomes recorded for one source
MaxOutcomes == 10

ScrapeEnds(p, success) ==
    /\ orch.providerHealth[p].successCount + orch.providerHealth[p].failureCount
          < MaxOutcomes
    /\ Step(updateProviderHealth(World, p, success), hist)
    /\ UNCHANGED clock

NextHealth == \E p \in Providers, success \in BOOLEAN : ScrapeEnds(p, success)

SpecHealth == InitQueue /\ [][NextHealth]_vars

(***************************************************************************)
(* The DataIntegrityService on its own: deduplicate and generateHash       *)
(* applied to a list of items. The items are drawn from a pool that holds  *)
(* items of equal fingerprint and different quality, titles that are equal *)
(* once normalized, titles one character apart (6 of 7, 7 of 8) and titles *)
(* with 17 of 20 characters in common.                                     *)
(***************************************************************************)
\* length of the item lists given to deduplicate
MaxLen == 3

\* the string of n characters c
Rep(c, n) == [i \in 1..n |-> c]

ItemPool ==
    {Item(<<"A", "b", "c">>, <<"/", "a">>, <<>>),
     Item(<<"a", "b", "c", " ">>, <<"/", "a">>, <<"1">>),
     Item(<<"a", "b", "-", "c">>, <<"/", "b">>, <<>>),
     Item(Rep("a", 6), <<"/", "c">>, <<>>),
     Item(Rep("a", 6) \o <<"b">>, <<"/", "1">>, <<"1">>),
     Item(Rep("a", 6) \o <<"b", "c">>, <<"/", "2">>, <<>>),
     Item(Rep("a", 6) \o <<"c">>, <<"/", "a", "1">>, <<>>),
     Item(Rep("b", 20), <<"/", "a", "2">>, <<>>),
     Item(Rep("b", 17), <<"/", "b", "1">>, <<>>),
     Item(Rep("b", 17) \o <<"c", "c", "c">>, <<"/", "b", "2">>, <<>>),
     ItemBy(Rep("a", 6), <<"/", "c">>, <<>>, <<"x">>),
     Item(Rep("a", 6), <<>>, <<"2">>)}

ItemLists == UNION {[1..n -> ItemPool] : n \in 0..MaxLen}

\* options.strategy of deduplicate (line 150)
Strategies == {"newest", "oldest", "best_quality", "merge"}

\* the field lists given to generateHash
FieldLists == {<<"title", "href">>, <<"title">>}

NoDedupe == [items |-> <<>>, stats |-> [total |-> 0, unique |-> 0, duplicates |-> 0]]

InitDedupe ==
    /\ InitRequestQueue
    /\ orch = InitOrch
    /\ \E items \in ItemLists, strategy \in Strategies :
           pure = [phase |-> "input", items |-> items, strategy |-> strategy,
                   fields |-> <<>>, hashes |-> <<>>, out |-> NoDedupe, again |-> NoDedupe]

\* deduplicate(items, {strategy, fields: ['title', 'href']})
Deduplicate ==
    /\ pure.phase = "input"
    /\ pure' = [pure EXCEPT !.phase = "once",
                            !.out = deduplicate(pure.items, <<"title", "href">>,
                                                pure.strategy)]
    /\ UNCHANGED <<clock, rq, req, nextId, timers, orch, integrity, cache, hist, mangadex>>

\* deduplicate applied to the items it returned
DeduplicateAgain ==
    /\ pure.phase = "once"
    /\ pure' = [pure EXCEPT !.phase = "twice",
                            !.again = deduplicate(pure.out.items, <<"title", "href">>,
                                                  pure.strategy)]
    /\ UNCHANGED <<clock, rq, req, nextId, timers, orch, integrity, cache, hist, mangadex>>

\* generateHash(item, fields) for every item of the list
Hash(fields) ==
    /\ pure.phase = "input"
    /\ pure' = [pure EXCEPT !.phase = "hashed", !.fields = fields,
                            !.hashes = [i \in 1..Len(pure.items) |->
                                           generateHash(pure.items[i], fields)]]
    /\ UNCHANGED <<clock, rq, req, nextId, timers, orch, integrity, cache, hist, mangadex>>

NextDedupe ==
    \/ Deduplicate
    \/ DeduplicateAgain
    \/ \E fields \in FieldLists : Hash(fields)

SpecDedupe == InitDedupe /\ [][NextDedupe]_vars

(***************************************************************************)
(* The DataIntegrityService on its own: deduplicate applied to the items   *)
(* of one title that several sources returned. An item is as its adapter   *)
(* returned it (its `_source` set, or not), or it is the result of an      *)
(* earlier merge (its `_sources` list set).                                *)
(***************************************************************************)
SourceNames == {"", "p1", "p2", "p3"}

\* the item of source s; the item without a source scores lower
SourcedItem(s) ==
    [Item(Rep("a", 6), <<"/", "c">>, IF s = "" THEN <<>> ELSE <<"1">>) EXCEPT !._source = s]

SourcedPool ==
    {SourcedItem(s) : s \in SourceNames}
    \cup {mergeItems(SourcedItem("p1"), SourcedItem("p2")),
          mergeItems(SourcedItem("p3"), SourcedItem(""))}

SourcedLists == UNION {[1..n -> SourcedPool] : n \in 0..MaxLen}

InitSources ==
    /\ InitRequestQueue
    /\ orch = InitOrch
    /\ \E items \in SourcedLists, strategy \in Strategies :
           pure = [phase |-> "input", items |-> items, strategy |-> strategy,
                   fields |-> <<>>, hashes |-> <<>>, out |-> NoDedupe, again |-> NoDedupe]

NextSources ==
    \/ Deduplicate
    \/ DeduplicateAgain

SpecSources == InitSources /\ [][NextSources]_vars

(***************************************************************************)
(* The MangaDex adapter on its own: apiRequest calls made at any time, by  *)
(* the adapter functions the RequestQueue runs side by side.               *)
(***************************************************************************)
\* a function of the adapter calls apiRequest
ApiRequest(a) ==
    /\ mangadex.calls[a].st = "idle"
    /\ mangadex' = apiRequest(mangadex, a)
    /\ UNCHANGED <<clock, rq, req, nextId, timers, orch, integrity, cache, hist, pure>>

\* the timer of line 37 fires: the call goes on after its await
ApiWake(a) ==
    /\ mangadex.calls[a].st = "waiting"
    /\ now >= mangadex.calls[a].wakeAt
    /\ mangadex' = apiSend(mangadex, a)
    /\ UNCHANGED <<clock, rq, req, nextId, timers, orch, integrity, cache, hist, pure>>

\* one tick of the clock passes: the timestamps of the adapter are one
\* tick older
ApiTick ==
    /\ clock < MaxApiTicks
    /\ clock' = clock + 1
    /\ mangadex' = [mangadex EXCEPT
                       !.RATE_LIMIT.lastRequestTime = Older(@, minInterval),
                       !.calls = [a \in ApiIds |->
                                     [@[a] EXCEPT !.wakeAt =
                                         IF mangadex.calls[a].st = "waiting"
                                         THEN Older(@, 0) ELSE @]]]
    /\ UNCHANGED <<rq, req, nextId, timers, orch, integrity, cache, hist, pure>>

NextApi ==
    \/ \E a \in ApiIds : ApiRequest(a)
    \/ \E a \in ApiIds : ApiWake(a)
    \/ ApiTick

SpecApi == InitQueue /\ [][NextApi]_vars

(***************************************************************************)
(* The DataIntegrityService on its own: the ledger of processed data. The  *)
(* time since a pair was last marked is observed in hist.marked (-1 when   *)
(* never, no further than hashExpiry + 1).                                 *)
(***************************************************************************)
MarkProcessed(hash, context) ==
    /\ integrity' = [integrity EXCEPT !.dataHashes = markProcessed(@, hash, context)]
    /\ hist' = [hist EXCEPT !.marked[<<context, hash>>] = 0]
    /\ pure' = [phase |-> "marked", hash |-> hash, context |-> context, result |-> FALSE]
    /\ UNCHANGED <<clock, rq, req, nextId, timers, orch, cache, mangadex>>

IsProcessed(hash, context) ==
    /\ integrity' = [integrity EXCEPT
                         !.dataHashes = isProcessed(@, hash, context).dataHashes]
    /\ pure' = [phase |-> "read", hash |-> hash, context |-> context,
                result |-> isProcessed(integrity.dataHashes, hash, context).result]
    /\ UNCHANGED <<clock, rq, req, nextId, timers, orch, cache, hist, mangadex>>

\* the cleanup interval fires
Cleanup ==
    /\ integrity' = [integrity EXCEPT !.dataHashes = cleanup(@)]
    /\ pure' = [phase |-> "cleaned", hash |-> <<>>, context |-> <<>>, result |-> FALSE]
    /\ UNCHANGED <<clock, rq, req, nextId, timers, orch, cache, hist, mangadex>>

NextLedger ==
    \/ \E hash \in LedgerHashes, context \in LedgerContexts : MarkProcessed(hash, context)
    \/ \E hash \in LedgerHashes, context \in LedgerContexts : IsProcessed(hash, context)
    \/ Cleanup
    \/ TickUpTo(MaxLedgerTicks)

SpecLedger == InitQueue /\ [][NextLedger]_vars

(***************************************************************************)
(* The DataIntegrityService on its own: a series of detectNewItems calls.  *)
(***************************************************************************)
\* number of detectNewItems calls
MaxDetect == 4

\* the lists given to detectNewItems
DetectData ==
    {<<>>,
     <<Item(<<"A", "b", "c">>, <<"/", "a">>, <<>>)>>,
     <<Item(<<"a", "b", "c", " ">>, <<"/", "a">>, <<"1">>)>>,
     <<Item(<<"a", "b", "-", "c">>, <<"/", "b">>, <<>>)>>,
     <<Item(<<"A", "b", "c">>, <<"/", "a">>, <<>>),
       Item(<<"a", "b", "-", "c">>, <<"/", "b">>, <<>>)>>}

\* calls: the number of calls made; context, newItems: the context and the
\* result of the last call; given: per context, the data of its calls, the
\* last call first
InitDetect ==
    /\ InitRequestQueue
    /\ orch = InitOrch
    /\ pure = [phase |-> "detect", calls |-> 0, context |-> <<"default">>,
               newItems |-> <<>>,
               given |-> [x \in Contexts |-> <<>>]]

\* detectNewItems(currentData, context)
DetectNewItems(currentData, context) ==
    /\ pure.phase = "detect"
    /\ pure.calls < MaxDetect
    /\ integrity' = [integrity EXCEPT !.dedupeIndex =
                         detectNewItems(@, currentData, context).dedupeIndex]
    /\ pure' = [pure EXCEPT
                   !.calls = @ + 1,
                   !.context = context,
                   !.newItems = detectNewItems(integrity.dedupeIndex, currentData,
                                               context).newItems,
                   !.given[context] = <<currentData>> \o @]
    /\ UNCHANGED <<clock, rq, req, nextId, timers, orch, cache, hist, mangadex>>

NextDetect == \E currentData \in DetectData, context \in Contexts :
                  DetectNewItems(currentData, context)

SpecDetect == InitDetect /\ [][NextDetect]_vars

(***************************************************************************)
(* DataIntegrityService.validateIntegrity (lines 421-476) on its own. The  *)
(* fields of an item are JavaScript values: undefined, a string (a         *)
(* sequence of characters) or a number.                                    *)
(***************************************************************************)
Undefined == [type |-> "undefined", s |-> <<>>, n |-> 0]

Str(s) == [type |-> "string", s |-> s, n |-> 0]

Num(n) == [type |-> "number", s |-> <<>>, n |-> n]

\* the truthiness of a value
Truthy(v) == (v.type = "string" /\ v.s # <<>>) \/ (v.type = "number" /\ v.n # 0)

\* String.prototype.startsWith
startsWith(s, prefix) ==
    Len(s) >= Len(prefix) /\ SubSeq(s, 1, Len(prefix)) = prefix

\* an element of the data given to validateIntegrity: object is FALSE for
\* null and for a primitive
VItem(title, href, thumbnail) ==
    [object |-> TRUE, title |-> title, href |-> href, thumbnail |-> thumbnail]

NotAnObject == [object |-> FALSE, title |-> Undefined, href |-> Undefined,
                thumbnail |-> Undefined]

\* number of items of a list given to validateIntegrity
MaxItems == 2

VItemPool ==
    {VItem(Str(<<"a">>), Str(<<"/", "a">>), Undefined),
     VItem(Str(<<"a">>), Str(<<"h", "t", "t", "p", ":", "a">>), Str(<<"/", "t">>)),
     VItem(Str(<<"a">>), Undefined, Undefined),
     VItem(Undefined, Str(<<"/", "a">>), Str(<<"t">>)),
     VItem(Str(<<>>), Str(<<"x">>), Undefined),
     VItem(Num(5), Str(<<"/", "a">>), Undefined),
     VItem(Str(<<"a">>), Num(0), Undefined),
     VItem(Str(<<"a">>), Num(42), Undefined),
     VItem(Str(<<"a">>), Str(<<"/", "a">>), Num(7)),
     NotAnObject}

VItemLists == UNION {[1..n -> VItemPool] : n \in 0..MaxItems}

\* item.href.startsWith or item.thumbnail.startsWith is called on a value
\* that has no such method (lines 453-454, 460): a TypeError
itemThrows(item) ==
    /\ item.object
    /\ \/ Truthy(item.href) /\ item.href.type # "string"
       \/ Truthy(item.thumbnail) /\ item.thumbnail.type # "string"

\* the errors pushed for the item at index (lines 433-443)
itemErrors(item, index) ==
    IF ~item.object
    THEN <<[index |-> index, field |-> "", message |-> "Invalid item: not an object"]>>
    ELSE (IF ~Truthy(item.title)
          THEN <<[index |-> index, field |-> "title",
                  message |-> "Missing required field: title"]>>
          ELSE <<>>)
         \o (IF ~Truthy(item.href)
             THEN <<[index |-> index, field |-> "href",
                     message |-> "Missing required field: href"]>>
             ELSE <<>>)

\* the warnings pushed for the item at index (lines 446-462); the length
\* of a title that is not a string is undefined, which is not below 1
itemWarnings(item, index) ==
    IF ~item.object THEN <<>>
    ELSE (IF Truthy(item.title) /\ item.title.type = "string" /\ Len(item.title.s) < 1
          THEN <<[index |-> index, field |-> "title", message |-> "Title too short"]>>
          ELSE <<>>)
         \o (IF /\ Truthy(item.href)
                /\ ~startsWith(item.href.s, <<"/">>)
                /\ ~startsWith(item.href.s, <<"h", "t", "t", "p">>)
             THEN <<[index |-> index, field |-> "href", message |-> "Invalid URL format"]>>
             ELSE <<>>)
         \o (IF /\ Truthy(item.thumbnail)
                /\ ~startsWith(item.thumbnail.s, <<"h", "t", "t", "p">>)
                /\ ~startsWith(item.thumbnail.s, <<"/">>)
             THEN <<[index |-> index, field |-> "thumbnail",
                     message |-> "Invalid thumbnail URL"]>>
             ELSE <<>>)

RECURSIVE allErrors(_, _)
allErrors(items, n) ==
    IF n = 0 THEN <<>> ELSE allErrors(items, n - 1) \o itemErrors(items[n], n - 1)

RECURSIVE allWarnings(_, _)
allWarnings(items, n) ==
    IF n = 0 THEN <<>> ELSE allWarnings(items, n - 1) \o itemWarnings(items[n], n - 1)

\* what validateIntegrity(items) does: it returns its report, or the
\* forEach callback throws
validateReport(items, errors, warnings) ==
    [kind |-> "report", valid |-> Len(errors) = 0, errors |-> errors,
     warnings |-> warnings,
     stats |-> [total |-> Len(items), valid |-> Len(items) - Len(errors),
                invalid |-> Len(errors), warnings |-> Len(warnings)]]

validateIntegrity(items) ==
    IF \E i \in 1..Len(items) : itemThrows(items[i])
    THEN [kind |-> "throws", error |-> "TypeError"]
    ELSE validateReport(items, allErrors(items, Len(items)),
                        allWarnings(items, Len(items)))

InitValidate ==
    /\ InitRequestQueue
    /\ orch = InitOrch
    /\ \E items \in VItemLists :
           pure = [phase |-> "input", items |-> items, out |-> [kind |-> "none"]]

\* validateIntegrity(items)
ValidateIntegrity ==
    /\ pure.phase = "input"
    /\ pure' = [pure EXCEPT !.phase = "validated", !.out = validateIntegrity(pure.items)]
    /\ UNCHANGED <<clock, rq, req, nextId, timers, orch, integrity, cache, hist, mangadex>>

NextValidate == ValidateIntegrity

SpecValidate == InitValidate /\ [][NextValidate]_vars

(***************************************************************************)
(* Claims about the RequestQueue.                                          *)
(***************************************************************************)
Settled(j) == req[j].st \in {"resolved", "rejected"}

\* a request rejected by the queue itself, its task not being the cause
QueueErrors == {"QueueFull", "QueueOverflow", "QueueCleared"}

\* rejected by handleError once the retry budget was used up
Terminal(j) == req[j].st = "rejected" /\ req[j].error \notin QueueErrors

Queued == {rq.queue[i] : i \in 1..Len(rq.queue)}

\* C1: in every reachable state the `running` counter is between 0 and
\* maxConcurrent, and it counts the requests that were dispatched and have
\* neither settled nor been put back in the queue.
C1_RunningBounded ==
    /\ rq.running >= 0
    /\ rq.running <= maxConcurrent
    /\ rq.running = Cardinality({j \in JobIds : req[j].st \in {"running", "backoff"}})

C1_Witness ==
    /\ rq.running = maxConcurrent
    /\ rq.queue # <<>>
    /\ \E j \in JobIds : req[j].st = "running" /\ req[j].attempts > 0

KeyOf(call) == generateOperationKey(Operation, call.providerId, call.args)

\* the requests of an operation key that are in the queue, running, or
\* waiting to be retried
InFlight(k) ==
    {j \in JobIds : req[j].key = k /\ req[j].st \in {"queued", "running", "backoff"}}

\* the scrape() calls made so far for an operation key
CallsOf(k) == {c \in CallIds : orch.calls[c].st # "unused" /\ KeyOf(orch.calls[c]) = k}

\* C2: for every operation key, whatever the number and the flags of the
\* scrape() callers, at most one request of that key is in flight in the
\* queue at any moment.
C2_OneInFlightPerKey == \A k \in Keys : Cardinality(InFlight(k)) <= 1

\* C3: a scrape() call for a key that has exactly one earlier call, still
\* pending, and no cached value, submits no request: it waits for the request
\* of the first call, the only request of that key.
C3_TwoCallsOneJob ==
    [][\A k \in Keys :
         LET c2 == orch.nextCall
         IN  (/\ c2 \in CallIds
              /\ orch'.nextCall = c2 + 1
              /\ KeyOf(orch'.calls[c2]) = k
              /\ Cardinality(CallsOf(k)) = 1
              /\ \A c1 \in CallsOf(k) : orch.calls[c1].st = "pending"
              /\ ~getCachedData(World, k).hit)
             => /\ nextId' = nextId
                /\ \A c1 \in CallsOf(k) : orch'.calls[c2].job = orch.calls[c1].job
                /\ Cardinality({j \in JobIds : req'[j].key = k}) = 1
                /\ \A j \in JobIds : hist'.execs[j] = hist.execs[j]]_vars

\* two calls of one key, the second made while the first was pending, have
\* both returned, one request and one execution of the task behind them
C3_Witness ==
    \E c1, c2 \in CallIds :
        /\ c1 < c2
        /\ orch.calls[c2].joined /\ ~orch.calls[c1].joined
        /\ orch.calls[c1].job = orch.calls[c2].job
        /\ orch.calls[c1].st = "done" /\ orch.calls[c2].st = "done"
        /\ CallsOf(KeyOf(orch.calls[c1])) = {c1, c2}
        /\ Cardinality({j \in JobIds : req[j].key = KeyOf(orch.calls[c1])}) = 1
        /\ hist.execs[orch.calls[c1].job] = 1

\* C4: a scrape() call that joined an execution in flight settles as the
\* call that started the execution does: with the same result object, or
\* with the same error.
C4_JoinerSameResult ==
    \A c, s \in CallIds :
        (/\ orch.calls[c].joined /\ ~orch.calls[s].joined
         /\ orch.calls[s].job = orch.calls[c].job
         /\ orch.calls[c].st \in {"done", "failed"}
         /\ orch.calls[s].st \in {"done", "failed"})
        => /\ orch.calls[c].st = orch.calls[s].st
           /\ orch.calls[c].result = orch.calls[s].result

\* C5: a handler run dispatches at most one request of a provider, and a
\* provider dispatched before is dispatched again only providerMinDelay or
\* more after its previous dispatch, whatever the request (priority, retried).
C5_ProviderSpacing ==
    [][\A p \in Providers :
         LET D == {j \in Dispatched(req, req') : req'[j].providerId = p}
         IN  D # {} =>
               /\ Cardinality(D) = 1
               /\ \/ hist.lastDispatch[p] = -1
                  \/ now - hist.lastDispatch[p] >= providerMinDelay]_vars

\* a provider dispatched a second time, for a retried (priority) request,
\* while another request of that provider waits for the cooldown
C5_Witness ==
    \E j, k \in JobIds :
        /\ j # k
        /\ req[j].providerId = req[k].providerId
        /\ hist.execs[j] >= 2
        /\ req[j].priority
        /\ req[k].st = "queued"

\* C6 as stated: a request whose task failed M times and then succeeded is
\* resolved with attempts = M + 1.
C6_AttemptsCountSuccess ==
    \A j \in hist.succeeded :
        req[j].st = "resolved" /\ req[j].attempts = hist.fails[j] + 1

\* C6 amended: a request whose task failed M times and then succeeded
\* (M < retryAttempts) is resolved with the task's result after M + 1
\* executions, and the attempts recorded on it are M: only failed
\* executions are counted.
C6_RetrySuccess ==
    \A j \in hist.succeeded :
        /\ req[j].st = "resolved"
        /\ req[j].value = TaskResult(j)
        /\ hist.fails[j] < retryAttempts
        /\ hist.execs[j] = hist.fails[j] + 1
        /\ req[j].attempts = hist.fails[j]

C6_Witness ==
    \E j \in hist.succeeded : hist.fails[j] >= 1 /\ req[j].st = "resolved"

EarliestNonPriority ==
    CHOOSE j \in Queued : ~req[j].priority /\ \A k \in Queued : ~req[k].priority => j <= k

\* C8: an enqueue on a full queue that holds a non-priority request rejects
\* the earliest-submitted non-priority request with the overflow error and
\* admits the new request; every other queued request stays queued or is
\* dispatched, none is rejected.
C8_OverflowEvictsOldest ==
    [][(/\ nextId' = nextId + 1
        /\ Len(rq.queue) >= maxQueueSize
        /\ \E j \in Queued : ~req[j].priority)
       => LET victim == EarliestNonPriority
          IN  /\ req'[victim].st = "rejected"
              /\ req'[victim].error = "QueueOverflow"
              /\ req'[nextId].st \in {"queued", "running"}
              /\ \A j \in Queued \ {victim} : req'[j].st \in {"queued", "running"}
              /\ \A j \in JobIds :
                    req'[j].st = "queued" <=> \E i \in 1..Len(rq'.queue) : rq'.queue[i] = j
              /\ \A j \in JobIds \ (Queued \cup {nextId}) : req'[j].st = req[j].st]_vars

C8_Witness ==
    \E j, k \in JobIds :
        /\ j < k
        /\ req[j].st = "rejected" /\ req[j].error = "QueueOverflow"
        /\ req[k].st = "queued" /\ ~req[k].priority
        /\ Len(rq.queue) >= maxQueueSize

\* C9: an enqueue on a full queue whose requests are all priority rejects the
\* new request with the queue-full error and changes nothing else: the queue,
\* the running count, the counters, the other requests, the timers.
C9_QueueFullRejects ==
    [][(/\ nextId' = nextId + 1
        /\ Len(rq.queue) >= maxQueueSize
        /\ \A j \in Queued : req[j].priority)
       => /\ req'[nextId].st = "rejected"
          /\ req'[nextId].error = "QueueFull"
          /\ rq' = rq
          /\ timers' = timers
          /\ \A j \in JobIds \ {nextId} : req'[j] = req[j]]_vars

C9_Witness ==
    /\ \E j \in JobIds : req[j].st = "rejected" /\ req[j].error = "QueueFull"
    /\ \E k \in Queued : req[k].attempts >= 1
    /\ \A k \in Queued : req[k].priority

\* the providers of a finished scrapeMultiProvider call whose scrape()
\* succeeded, and those whose scrape() failed or timed out
Succeeded(m) ==
    SelectSeq(orch.multis[m].providersList, LAMBDA p : orch.multis[m].outcome[p] = "ok")

Failed(m) ==
    SelectSeq(orch.multis[m].providersList, LAMBDA p : orch.multis[m].outcome[p] # "ok")

Finished(m) == orch.multis[m].st \in {"returned", "thrown"}

\* C10 as stated, for a call with at least one source: scrapeMultiProvider
\* throws exactly when the fraction of failed sources is greater than
\* failureThreshold and no source succeeded, and in every other case returns
\* success = true with the two lists.
C10_ThrowsOrSucceeds ==
    \A m \in MultiIds : (Finished(m) /\ orch.multis[m].providersList # <<>>) =>
        LET mu == orch.multis[m]
        IN  /\ mu.st = "thrown" <=>
                  /\ Len(Failed(m)) * 100 > mu.failureThreshold * Len(mu.providersList)
                  /\ Len(Succeeded(m)) = 0
            /\ mu.st = "returned" =>
                  /\ mu.success
                  /\ mu.successful = Succeeded(m)
                  /\ mu.failed = Failed(m)

\* C10 amended: scrapeMultiProvider throws exactly when its source list is
\* empty, or the fraction of failed sources is greater than failureThreshold
\* and no source succeeded; in every other case it returns the two lists,
\* and success is true exactly when a source succeeded.
C10_FailureThreshold ==
    \A m \in MultiIds : Finished(m) =>
        LET mu == orch.multis[m]
        IN  /\ mu.st = "thrown" <=>
                  \/ mu.providersList = <<>>
                  \/ /\ Len(Failed(m)) * 100 > mu.failureThreshold * Len(mu.providersList)
                     /\ Len(Succeeded(m)) = 0
            /\ mu.st = "thrown" =>
                  mu.error = IF mu.providersList = <<>> THEN "NoHealthyProviders"
                             ELSE "TooManyFailures"
            /\ mu.st = "returned" =>
                  /\ mu.success <=> Len(Succeeded(m)) > 0
                  /\ mu.successful = Succeeded(m)
                  /\ mu.failed = Failed(m)

\* one call has returned success = false, every source having failed under
\* the threshold 100%; another has thrown for its failures
C10_Witness ==
    \E m, n \in MultiIds :
        /\ orch.multis[m].st = "returned" /\ ~orch.multis[m].success
        /\ orch.multis[m].failureThreshold = 100
        /\ orch.multis[n].st = "thrown" /\ orch.multis[n].error = "TooManyFailures"

(***************************************************************************)
(* Claims about scrapeMultiProvider and scrape.                            *)
(***************************************************************************)
\* C11: when scrapeMultiProvider returns, providers.successful holds exactly
\* the requested sources whose scrape() has fulfilled, providers.failed
\* exactly those whose scrape() has rejected or has not settled by the
\* timeout; the two lists are disjoint and together are the requested
\* sources; and success is true when a source succeeded.
C11_PartialSuccess ==
    [][\A m \in MultiIds :
         (orch.multis[m].st # "returned" /\ orch'.multis[m].st = "returned") =>
            LET mu == orch'.multis[m]
                fulfilled(p) == orch'.calls[mu.call[p]].st = "done"
            IN  /\ \A p \in Providers :
                      /\ InSeq(mu.successful, p) <=>
                            (InSeq(mu.providersList, p) /\ fulfilled(p))
                      /\ InSeq(mu.failed, p) <=>
                            (InSeq(mu.providersList, p) /\ ~fulfilled(p))
                      /\ ~(InSeq(mu.successful, p) /\ InSeq(mu.failed, p))
                /\ Len(mu.successful) + Len(mu.failed) = Len(mu.providersList)
                /\ Len(mu.successful) > 0 => mu.success]_vars

\* a call has returned success with one source in each list, the failed one
\* having timed out
C11_Witness ==
    \E m \in MultiIds :
        /\ orch.multis[m].st = "returned" /\ orch.multis[m].success
        /\ Len(orch.multis[m].successful) = 1
        /\ Len(orch.multis[m].failed) = 1
        /\ orch.multis[m].outcome[orch.multis[m].failed[1]] = "timeout"

\* C13: a scrapeMultiProvider call given a non-empty source list works on
\* that list as given and calls scrape() for every source of it, whatever
\* the health of the source, and that scrape() call joins an execution in
\* flight, is served from the cache or submits a request for the source;
\* only a call given no list works on the sources isProviderHealthy accepts.
C13_ExplicitBypassesHealth ==
    [][\A m \in MultiIds :
         (orch.multis[m].st = "unused" /\ orch'.multis[m].st # "unused") =>
            LET mu == orch'.multis[m]
            IN  IF mu.providers # <<>>
                THEN /\ mu.providersList = mu.providers
                     /\ \A i \in 1..Len(mu.providers) :
                           LET c == mu.call[mu.providers[i]]
                           IN  /\ c \in CallIds
                               /\ orch.calls[c].st = "unused"
                               /\ orch'.calls[c].st # "unused"
                               /\ orch'.calls[c].providerId = mu.providers[i]
                               /\ \/ orch'.calls[c].result.fromCache
                                  \/ /\ orch'.calls[c].job \in JobIds
                                     /\ req'[orch'.calls[c].job].providerId = mu.providers[i]
                                     /\ \/ orch'.calls[c].joined
                                        \/ req[orch'.calls[c].job].st = "unused"
                ELSE mu.providersList =
                         SelectSeq(listProviders, LAMBDA p : isProviderHealthy(World, p))]_vars

\* a source with five consecutive failures, named in the list of a call, has
\* had its adapter called for that call
C13_Witness ==
    \E m \in MultiIds : \E p \in Providers :
        /\ orch.multis[m].st = "pending"
        /\ orch.multis[m].providers # <<>>
        /\ InSeq(orch.multis[m].providers, p)
        /\ orch.providerHealth[p].consecutiveFailures >= 5
        /\ ~isProviderHealthy(World, p)
        /\ ~orch.calls[orch.multis[m].call[p]].joined
        /\ orch.calls[orch.multis[m].call[p]].job \in JobIds
        /\ hist.execs[orch.calls[orch.multis[m].call[p]].job] >= 1

\* C14: a scrape() call with neither skipCache nor forceRefresh, made when
\* the in-flight map has no entry for its key and the Cache Store holds a
\* value under the key, returns that value with fromCache = true and source
\* 'cache', and changes nothing else: no request is created, and the queue,
\* the timers, the health, the history, the freshness and the cache are as
\* before.
C14_CacheHitFrame ==
    [][\A c \in CallIds :
         (/\ orch.nextCall = c
          /\ orch'.nextCall = c + 1
          /\ ~orch'.calls[c].skipCache
          /\ ~orch'.calls[c].forceRefresh
          /\ orch.activeOperations[KeyOf(orch'.calls[c])] = 0
          /\ cacheGet(cache, KeyOf(orch'.calls[c])).hit)
         => /\ orch'.calls[c].st = "done"
            /\ orch'.calls[c].result =
                  [NoResult EXCEPT !.kind = "wrapper", !.success = TRUE,
                                   !.data = cacheGet(cache, KeyOf(orch'.calls[c])).data,
                                   !.source = "cache", !.fromCache = TRUE]
            /\ orch'.calls[c].job = 0
            /\ nextId' = nextId
            /\ req' = req
            /\ rq' = rq
            /\ timers' = timers
            /\ orch'.providerHealth = orch.providerHealth
            /\ orch'.operationHistory = orch.operationHistory
            /\ orch'.activeOperations = orch.activeOperations
            /\ integrity' = integrity
            /\ cache' = cache
            /\ hist' = hist]_vars

\* a call has been served from the cache the value an earlier call wrote
C14_Witness ==
    \E c, d \in CallIds :
        /\ d < c
        /\ orch.calls[d].st = "done" /\ orch.calls[d].result.source = "scrape"
        /\ KeyOf(orch.calls[d]) = KeyOf(orch.calls[c])
        /\ orch.calls[c].st = "done"
        /\ ~orch.calls[c].skipCache /\ ~orch.calls[c].forceRefresh
        /\ orch.calls[c].result.fromCache
        /\ orch.calls[c].result.data = orch.calls[d].result.data
        /\ orch.calls[c].job = 0

\* C15: a scrape() call made with skipCache = true that has returned has
\* not returned a cached value: its result has fromCache = false.
C15_SkipCacheNeverCached ==
    \A c \in CallIds :
        (orch.calls[c].skipCache /\ orch.calls[c].st = "done")
            => ~orch.calls[c].result.fromCache

\* the items page n of scrapePaginated call g returned (none while its
\* scrape() call has not fulfilled)
PageItems(g, n) ==
    IF orch.pags[g].call[n] # 0 /\ orch.calls[orch.pags[g].call[n]].st = "done"
    THEN pageDataOf(orch.calls[orch.pags[g].call[n]].result)
    ELSE <<>>

\* page n of call g has been fetched and returned zero items
PageEmpty(g, n) ==
    /\ orch.pags[g].call[n] # 0
    /\ orch.calls[orch.pags[g].call[n]].st = "done"
    /\ PageItems(g, n) = <<>>

\* the items of pages 1..n of call g, in page order
RECURSIVE PagesUpTo(_, _)
PagesUpTo(g, n) == IF n = 0 THEN <<>> ELSE PagesUpTo(g, n - 1) \o PageItems(g, n)

\* call g has stopped after page n: it has returned, no page beyond n has
\* been requested and its data is made of the pages up to n
StoppedAfter(g, n) ==
    /\ orch.pags[g].st = "returned"
    /\ \A k \in 1..MaxPages : k > n => orch.pags[g].call[k] = 0
    /\ orch.pags[g].data
          = deduplicate(PagesUpTo(g, n), <<"title", "href">>, "best_quality").items

Total(p) == orch.providerHealth[p].successCount + orch.providerHealth[p].failureCount

\* C12 as stated: a source with 5 or more consecutive failures is not in
\* the default source set, and the next success of such a source sets
\* consecutiveFailures to 0 and puts the source in the default set again.
C12_SuccessRestores ==
    [][\A p \in Providers :
         /\ orch'.providerHealth[p].consecutiveFailures >= 5
               => ~InSeq(healthyProviders(World'), p)
         /\ (/\ orch.providerHealth[p].consecutiveFailures >= 5
             /\ orch'.providerHealth[p].successCount
                   = orch.providerHealth[p].successCount + 1)
            => /\ orch'.providerHealth[p].consecutiveFailures = 0
               /\ InSeq(healthyProviders(World'), p)]_vars

\* C12 amended: a source with 5 or more consecutive failures is not in the
\* default source set; the next success of such a source sets
\* consecutiveFailures to 0, and the source is in the default set again
\* exactly when it does not have 10 or more recorded outcomes with more than
\* half of them failures.
C12_HealthTransition ==
    [][\A p \in Providers :
         /\ orch'.providerHealth[p].consecutiveFailures >= 5
               => ~InSeq(healthyProviders(World'), p)
         /\ (/\ orch.providerHealth[p].consecutiveFailures >= 5
             /\ orch'.providerHealth[p].successCount
                   = orch.providerHealth[p].successCount + 1)
            => /\ orch'.providerHealth[p].consecutiveFailures = 0
               /\ orch'.providerHealth[p].failureCount = orch.providerHealth[p].failureCount
               /\ InSeq(healthyProviders(World'), p)
                     <=> ~(/\ Total(p)' >= 10
                           /\ orch'.providerHealth[p].failureCount * 2 > Total(p)')]_vars

\* one source is back in the default set after five failures and a success,
\* another is still out of it after nine failures and a success
C12_Witness ==
    \E p, q \in Providers :
        /\ orch.providerHealth[p] =
              [successCount |-> 1, failureCount |-> 5, consecutiveFailures |-> 0]
        /\ InSeq(healthyProviders(World), p)
        /\ orch.providerHealth[q] =
              [successCount |-> 1, failureCount |-> 9, consecutiveFailures |-> 0]
        /\ ~InSeq(healthyProviders(World), q)

(***************************************************************************)
(* Claims about the DataIntegrityService.                                  *)
(***************************************************************************)
\* C17: for every strategy, deduplicate applied to the items it returned
\* returns the same items in the same order and reports zero duplicates.
C17_Idempotent ==
    pure.phase = "twice" =>
        /\ pure.again.items = pure.out.items
        /\ pure.again.stats.duplicates = 0

\* a title as the fuzzy match compares it
Normalized(title) == stripNonAlnum(toLowerCase(title))

\* the similarity of two normalized titles as the fraction num / den: the
\* containment ratio len(shorter) / len(longer), else the number of equal
\* characters at equal positions over the length of the longer
Similarity(t1, t2) ==
    LET longer == IF Len(t1) > Len(t2) THEN t1 ELSE t2
        shorter == IF Len(t1) > Len(t2) THEN t2 ELSE t1
    IN  IF \E i \in 0..(Len(longer) - Len(shorter)) :
               \A k \in 1..Len(shorter) : longer[i + k] = shorter[k]
        THEN [num |-> Len(shorter), den |-> Len(longer)]
        ELSE [num |-> Cardinality({k \in 1..Len(shorter) : longer[k] = shorter[k]}),
              den |-> Len(longer)]

\* C18: deduplicate given two items with different fingerprints and
\* different normalized titles reports the second a duplicate of the first
\* exactly when the similarity of the titles is strictly greater than 0.85;
\* at exactly 0.85 (17 of 20) both items are kept.
C18_FuzzyBoundary ==
    (pure.phase = "once" /\ Len(pure.items) = 2) =>
        LET t1 == Normalized(pure.items[1].title)
            t2 == Normalized(pure.items[2].title)
            sim == Similarity(t1, t2)
        IN  (/\ generateHash(pure.items[1], <<"title", "href">>)
                   # generateHash(pure.items[2], <<"title", "href">>)
             /\ t1 # t2)
            => /\ pure.out.stats.duplicates = 1 <=> sim.num * 100 > 85 * sim.den
               /\ pure.out.stats.unique = 2 <=> sim.num * 100 <= 85 * sim.den
               /\ pure.out.stats.unique + pure.out.stats.duplicates = 2

\* two items whose titles have a similarity of exactly 0.85 were both kept
C18_Witness ==
    /\ pure.phase = "once"
    /\ Len(pure.items) = 2
    /\ Normalized(pure.items[1].title) # Normalized(pure.items[2].title)
    /\ Similarity(Normalized(pure.items[1].title), Normalized(pure.items[2].title))
          = [num |-> 17, den |-> 20]
    /\ pure.out.stats.duplicates = 0
    /\ Len(pure.out.items) = 2

\* C19: for one field list, two items whose values of the listed fields are
\* equal after lower-casing and trimming have the same hash, and a second
\* call of generateHash returns the hash of the first.
C19_HashStable ==
    pure.phase = "hashed" =>
        \A i, j \in 1..Len(pure.items) :
            /\ pure.hashes[i] = generateHash(pure.items[i], pure.fields)
            /\ (\A k \in 1..Len(pure.fields) :
                    trim(toLowerCase(pure.items[i][pure.fields[k]]))
                        = trim(toLowerCase(pure.items[j][pure.fields[k]])))
               => pure.hashes[i] = pure.hashes[j]

\* two items whose titles differ in case and surrounding whitespace have
\* been given the same hash on title and href
C19_Witness ==
    /\ pure.phase = "hashed"
    /\ pure.fields = <<"title", "href">>
    /\ \E i, j \in 1..Len(pure.items) :
          /\ pure.items[i].title # pure.items[j].title
          /\ pure.hashes[i] = pure.hashes[j]

\* the fingerprints of a list of items
HashesOf(data) == {generateHash(data[i], <<"title", "href">>) : i \in 1..Len(data)}

\* C20: a detectNewItems call for a context reports new exactly the items
\* whose fingerprint is not among those of the data of the previous call for
\* that context: none when the data is that of the previous call, and an
\* item of the call before the previous one that the previous call did not
\* have is new again; the stored set of the context becomes the fingerprints
\* of the current data, and the other contexts keep theirs.
C20_SingleGeneration ==
    [][\A x \in Contexts :
         (/\ pure.phase = "detect"
          /\ pure'.calls = pure.calls + 1
          /\ pure'.context = x)
         => LET currentData == pure'.given[x][1]
                previous == IF pure.given[x] = <<>> THEN <<>> ELSE pure.given[x][1]
                NotPrevious(item) ==
                    generateHash(item, <<"title", "href">>) \notin HashesOf(previous)
            IN  /\ [i \in 1..Len(pure'.newItems) |-> pure'.newItems[i].item]
                      = SelectSeq(currentData, NotPrevious)
                /\ (pure.given[x] # <<>> /\ currentData = previous)
                      => pure'.newItems = <<>>
                /\ \A i \in 1..Len(currentData) :
                      (/\ Len(pure.given[x]) >= 2
                       /\ generateHash(currentData[i], <<"title", "href">>)
                             \in HashesOf(pure.given[x][2]) \ HashesOf(previous))
                      => \E n \in 1..Len(pure'.newItems) :
                             pure'.newItems[n].item = currentData[i]
                /\ integrity'.dedupeIndex[x] = HashesOf(currentData)
                /\ \A y \in Contexts \ {x} :
                      integrity'.dedupeIndex[y] = integrity.dedupeIndex[y]]_vars

\* the last call reported new an item that the call before the previous one
\* had and the previous call had not, while another context holds a set
C20_Witness ==
    /\ pure.phase = "detect"
    /\ Len(pure.given[pure.context]) = 3
    /\ \E n \in 1..Len(pure.newItems) :
          pure.newItems[n].hash \in HashesOf(pure.given[pure.context][3])
                                       \ HashesOf(pure.given[pure.context][2])
    /\ \E y \in Contexts \ {pure.context} : integrity.dedupeIndex[y] # {}

\* C21: validateIntegrity never throws: for every item list, items with
\* missing or non-string href, thumbnail or title included, it returns
\* {valid, errors, warnings, stats} (so that a scrape() whose request
\* succeeded is not made to fail by the validation).
C21_ValidationNeverThrows ==
    pure.phase = "validated"
        => /\ pure.out.kind = "report"
           /\ pure.out.valid = (Len(pure.out.errors) = 0)
           /\ pure.out.stats.total = Len(pure.items)

\* C22: clear() rejects every request that is in the queue with the
\* 'Queue cleared' error and leaves the queue empty; the requests that are
\* not in the queue (running ones included), the running count and the
\* completed and failed counters are unchanged.
C22_ClearFrame ==
    [][Clear =>
          /\ \A j \in JobIds :
                IF InSeq(rq.queue, j)
                THEN req'[j].st = "rejected" /\ req'[j].error = "QueueCleared"
                ELSE req'[j] = req[j]
          /\ rq'.queue = <<>>
          /\ rq'.running = rq.running
          /\ rq'.completed = rq.completed
          /\ rq'.failed = rq.failed]_vars

\* the queue was cleared while a request was running
C22_Witness ==
    \E j, k \in JobIds :
        /\ req[j].st = "rejected" /\ req[j].error = "QueueCleared"
        /\ req[k].st = "running"
        /\ rq.queue = <<>>
        /\ rq.running >= 1

\* a queued request whose provider has waited providerMinDelay
Eligible(lastRequest, j) == now - lastRequest[req[j].providerId] >= providerMinDelay

\* C23: while the queue is paused no request is dispatched and running does
\* not grow; pause() itself removes and rejects nothing; resume() restarts
\* the dispatch from the queue as it is: it dispatches queued requests until
\* the queue is empty, maxConcurrent requests run, or every queued request
\* has to wait for its provider's delay (and then a re-check is scheduled).
C23_PauseHoldsDispatch ==
    [][/\ (rq.paused /\ rq'.paused)
             => /\ Dispatched(req, req') = {}
                /\ rq'.running <= rq.running
       /\ (~rq.paused /\ rq'.paused)
             => /\ req' = req
                /\ rq'.queue = rq.queue
                /\ rq'.running = rq.running
       /\ (rq.paused /\ ~rq'.paused)
             => /\ \A j \in Dispatched(req, req') : InSeq(rq.queue, j)
                /\ rq'.running = rq.running + Cardinality(Dispatched(req, req'))
                /\ rq'.running <= maxConcurrent
                /\ \/ rq'.queue = <<>>
                   \/ rq'.running = maxConcurrent
                   \/ /\ \A i \in 1..Len(rq'.queue) :
                            ~Eligible(rq'.providerLastRequest, rq'.queue[i])
                      /\ (now + providerMinDelay) \in timers']_vars

\* the queue is paused and holds a request that only the pause keeps back: a
\* slot is free and its provider has waited long enough
C23_Witness ==
    /\ rq.paused
    /\ rq.running >= 1
    /\ rq.running < maxConcurrent
    /\ \E i \in 1..Len(rq.queue) : Eligible(rq.providerLastRequest, rq.queue[i])

\* C24: of two requests of the same source with the same priority flag, the
\* one submitted first is dispatched first: when a request is dispatched for
\* the first time, no request of its source and priority flag that was
\* submitted before it is still waiting for its first dispatch.
C24_SubmissionOrder ==
    [][\A j, k \in JobIds :
          (/\ j < k
           /\ req'[j].providerId = req'[k].providerId
           /\ req'[j].priority = req'[k].priority
           /\ k \in Dispatched(req, req')
           /\ hist.execs[k] = 0)
              => ~(req[j].st = "queued" /\ hist.execs[j] = 0 /\ req'[j].st = "queued")]_vars

\* every in-flight marker tracks a request that has not settled, awaited by
\* the pending scrape() call that set the marker
MarkersTracked ==
    \A k \in Keys :
        orch.activeOperations[k] # 0
            => /\ req[orch.activeOperations[k]].st \notin {"resolved", "rejected"}
               /\ \E c \in CallIds :
                     /\ orch.calls[c].st = "pending" /\ ~orch.calls[c].joined
                     /\ KeyOf(orch.calls[c]) = k
                     /\ orch.calls[c].job = orch.activeOperations[k]

\* C25: the in-flight marker of a key is gone once the scrape() call whose
\* execution it tracks has settled, fulfilled or rejected: a marker always
\* belongs to a pending call and an unsettled request, the step that settles
\* a call leaves no marker for its key, and when no call is pending the
\* in-flight map is empty.
C25_MarkerRemoved ==
    [][/\ MarkersTracked'
       /\ \A c \in CallIds :
             (orch.calls[c].st = "pending" /\ orch'.calls[c].st \in {"done", "failed"})
                => orch'.activeOperations[KeyOf(orch'.calls[c])] = 0
       /\ (\A c \in CallIds : orch'.calls[c].st # "pending")
             => \A k \in Keys : orch'.activeOperations[k] = 0]_vars

\* a call failed after its request had run, and a later call for the same
\* key was not held up by a marker: it submitted a request of its own
C25_Witness ==
    \E c, d \in CallIds :
        /\ c < d
        /\ KeyOf(orch.calls[c]) = KeyOf(orch.calls[d])
        /\ orch.calls[c].st = "failed" /\ ~orch.calls[c].joined
        /\ hist.execs[orch.calls[c].job] >= 1
        /\ orch.calls[d].st = "pending" /\ ~orch.calls[d].joined
        /\ orch.calls[d].job # 0 /\ orch.calls[d].job # orch.calls[c].job
        /\ orch.activeOperations[KeyOf(orch.calls[d])] = orch.calls[d].job

\* the step in which the request submitted by scrape() call c succeeds and
\* the call returns
ScrapeSucceeds(c) ==
    /\ orch.calls[c].st = "pending" /\ ~orch.calls[c].joined
    /\ orch'.calls[c].st = "done"

\* the entry cacheResult writes for the result of call c
CacheEntryOf(call) ==
    [present |-> TRUE, data |-> call.result.data, expiresAt |-> now + staleThreshold]

\* C26 as stated: every scrape() call that submitted a request which
\* succeeded, whatever its flags, has written its processed result to the
\* cache under its key with the operation's TTL and has set the freshness
\* entry of its source and operation when it returns.
C26_AlwaysCached ==
    [][\A c \in CallIds :
          ScrapeSucceeds(c)
             => /\ cache'[KeyOf(orch'.calls[c])] = CacheEntryOf(orch'.calls[c])
                /\ integrity'.freshnessMap[<<orch'.calls[c].providerId, Operation>>] = now]_vars

\* C26, amended: a scrape() call that submitted a request which succeeded
\* has set the freshness entry of its source and operation when it returns,
\* whatever its flags; it has written its processed result to the cache
\* under its key with the operation's TTL when skipCache is false, and has
\* left the cache as it was when skipCache is true.
C26_CachedUnlessSkipped ==
    [][\A c \in CallIds :
          ScrapeSucceeds(c)
             => /\ integrity'.freshnessMap[<<orch'.calls[c].providerId, Operation>>] = now
                /\ IF orch'.calls[c].skipCache
                   THEN cache' = cache
                   ELSE cache'[KeyOf(orch'.calls[c])] = CacheEntryOf(orch'.calls[c])]_vars

\* a forceRefresh call without deduplication has returned what its request
\* fetched, and the cache holds that value under the key
C26_Witness ==
    \E c \in CallIds :
        /\ orch.calls[c].st = "done" /\ ~orch.calls[c].joined
        /\ orch.calls[c].forceRefresh /\ ~orch.calls[c].deduplication
        /\ ~orch.calls[c].skipCache
        /\ orch.calls[c].result.source = "scrape"
        /\ cache[KeyOf(orch.calls[c])].present
        /\ cache[KeyOf(orch.calls[c])].data = orch.calls[c].result.data
        /\ integrity.freshnessMap[<<orch.calls[c].providerId, Operation>>] = now

\* the step in which the request submitted by scrape() call c is rejected
\* for good and the call throws
ScrapeFails(c) ==
    /\ orch.calls[c].st = "pending" /\ ~orch.calls[c].joined
    /\ orch'.calls[c].st = "failed"

\* C27: when the request a scrape() call submitted fails for good, the call
\* throws that error, failureCount and consecutiveFailures of its source
\* grow by exactly one, exactly one failure record is added to the
\* operation history (at its front, where logOperation puts every record),
\* and the cache and the freshness entries are unchanged.
C27_FailurePropagates ==
    [][\A c \in CallIds :
          ScrapeFails(c)
             => /\ req'[orch.calls[c].job].st = "rejected"
                /\ orch'.calls[c].result =
                      [NoResult EXCEPT !.kind = "error",
                                       !.error = req'[orch.calls[c].job].error]
                /\ orch'.providerHealth[orch.calls[c].providerId] =
                      [orch.providerHealth[orch.calls[c].providerId] EXCEPT
                          !.failureCount = @ + 1, !.consecutiveFailures = @ + 1]
                /\ orch'.operationHistory =
                      <<[providerId |-> orch.calls[c].providerId, success |-> FALSE,
                         error |-> req'[orch.calls[c].job].error]>>
                         \o orch.operationHistory
                /\ cache' = cache
                /\ integrity' = integrity]_vars

\* a call has thrown the error of the last execution of its request, all
\* retries used up, and its source has that one failure on record
C27_Witness ==
    \E c \in CallIds :
        /\ orch.calls[c].st = "failed" /\ ~orch.calls[c].joined
        /\ hist.execs[orch.calls[c].job] = retryAttempts
        /\ orch.calls[c].result.error = hist.lastError[orch.calls[c].job]
        /\ orch.providerHealth[orch.calls[c].providerId].failureCount = 1
        /\ orch.providerHealth[orch.calls[c].providerId].consecutiveFailures = 1
        /\ Len(orch.operationHistory) = 1
        /\ ~orch.operationHistory[1].success

\* the pages scrapePaginated call g has requested
Requested(g) == {n \in 1..MaxPages : orch.pags[g].call[n] # 0}

\* the requested pages of call g whose scrape() call has not settled
Awaited(g) == {n \in Requested(g) : orch.calls[orch.pags[g].call[n]].st = "pending"}

\* the last page of call g
LastPage(g) == orch.pags[g].startPage + orch.pags[g].maxPages - 1

\* C28: a scrapePaginated call requests at most maxPages pages, all of them
\* in startPage .. startPage + maxPages - 1, each with its page number as
\* argument, and one after another: a page is requested only when the page
\* before it has settled. It ends: while it has not returned it waits for
\* exactly one page, every page that settles either ends the call or moves
\* it to the next page number, and once it has returned it requests nothing.
C28_BoundedSequential ==
    [][\A g \in PagIds :
          /\ Cardinality(Requested(g)') <= orch'.pags[g].maxPages
          /\ \A n \in Requested(g)' :
                /\ orch'.pags[g].startPage <= n /\ n <= LastPage(g)'
                /\ orch'.calls[orch'.pags[g].call[n]].args = PageArgs[n]
                /\ n > orch'.pags[g].startPage
                      => /\ (n - 1) \in Requested(g)'
                         /\ (n - 1) \notin Awaited(g)'
          /\ orch'.pags[g].st = "pending"
                => /\ Awaited(g)' = {orch'.pags[g].currentPage}
                   /\ orch'.pags[g].currentPage <= LastPage(g)'
          /\ orch'.pags[g].st = "returned" => Awaited(g)' = {}
          /\ (orch.pags[g].st = "pending" /\ Awaited(g)' # Awaited(g))
                => \/ orch'.pags[g].st = "returned"
                   \/ orch'.pags[g].currentPage = orch.pags[g].currentPage + 1
          /\ orch.pags[g].st = "returned" => orch'.pags[g] = orch.pags[g]]_vars

\* a call with maxPages = 2 has returned because its two pages were fetched:
\* both returned items, and no third page was requested
C28_Witness ==
    \E g \in PagIds :
        /\ orch.pags[g].st = "returned"
        /\ orch.pags[g].maxPages = 2
        /\ Requested(g) = {1, 2}
        /\ \A n \in Requested(g) :
              /\ orch.calls[orch.pags[g].call[n]].st = "done"
              /\ orch.calls[orch.pags[g].call[n]].result.data # <<>>
        /\ Len(orch.pags[g].pageResults) = 2

\* the step in which the scrape() call of the current page of call g throws
PageFails(g) ==
    /\ orch.pags[g].st = "pending"
    /\ orch.calls[orch.pags[g].call[orch.pags[g].currentPage]].st = "pending"
    /\ orch'.calls[orch.pags[g].call[orch.pags[g].currentPage]].st = "failed"

\* call g has returned the pages collected so far, deduplicated
ReturnedCollected(g) ==
    /\ orch'.pags[g].st = "returned"
    /\ Requested(g)' = Requested(g)
    /\ orch'.pags[g].data
          = deduplicate(orch.pags[g].allData, <<"title", "href">>, "best_quality").items
    /\ orch'.pags[g].success = (Len(orch.pags[g].allData) > 0)

\* C29: when the fetch of a page throws, the page is entered in the
\* per-page log as failed (count 0) and the items collected so far are kept;
\* with stopOnEmpty = true the call ends with that page and returns those
\* items; with stopOnEmpty = false it requests the next page number, or, the
\* failed page being the last one, returns those items.
C29_PageError ==
    [][\A g \in PagIds :
          PageFails(g)
             => /\ orch'.pags[g].pageResults =
                      Append(orch.pags[g].pageResults,
                             [page |-> orch.pags[g].currentPage, count |-> 0,
                              success |-> FALSE])
                /\ orch'.pags[g].allData = orch.pags[g].allData
                /\ IF orch.pags[g].stopOnEmpty \/ orch.pags[g].currentPage = LastPage(g)
                   THEN ReturnedCollected(g)
                   ELSE /\ orch'.pags[g].st = "pending"
                        /\ orch'.pags[g].currentPage = orch.pags[g].currentPage + 1
                        /\ Requested(g)' = Requested(g) \cup {orch.pags[g].currentPage + 1}]_vars

\* page 1 returned items, page 2 failed, and the call has returned the items
\* of page 1
C29_Witness ==
    \E g \in PagIds :
        /\ orch.pags[g].st = "returned"
        /\ Len(orch.pags[g].pageResults) = 2
        /\ orch.pags[g].pageResults[1].success /\ orch.pags[g].pageResults[1].count > 0
        /\ ~orch.pags[g].pageResults[2].success
        /\ orch.calls[orch.pags[g].call[2]].st = "failed"
        /\ orch.pags[g].data # <<>>
        /\ orch.pags[g].success

\* the input of deduplicate is two items that fall into one group, of
\* different quality scores
TwoOfOneGroup ==
    /\ pure.phase = "once"
    /\ pure.strategy = "best_quality"
    /\ Len(pure.items) = 2
    /\ Len(pure.out.items) = 1
    /\ getQualityScore(pure.items[1]) # getQualityScore(pure.items[2])

\* the higher-scoring and the lower-scoring of the two items
Higher ==
    IF getQualityScore(pure.items[1]) > getQualityScore(pure.items[2])
    THEN pure.items[1] ELSE pure.items[2]

Lower ==
    IF getQualityScore(pure.items[1]) > getQualityScore(pure.items[2])
    THEN pure.items[2] ELSE pure.items[1]

\* C30: under best_quality, the item a group keeps when a second item
\* matches it is the higher-scoring of the two merged over the lower-scoring
\* one, whichever of them came first: it has the title, href and author of
\* the higher-scoring item, and where that item has no chapter (a merge
\* field) and the lower-scoring one has, the chapter of the lower-scoring one.
C30_BestQualityMerges ==
    TwoOfOneGroup
        => /\ pure.out.items[1].title = Higher.title
           /\ pure.out.items[1].href = Higher.href
           /\ pure.out.items[1].author = Higher.author
           /\ Higher.chapter = <<>> => pure.out.items[1].chapter = Lower.chapter

(***************************************************************************)
(* Claims C31..C40.                                                        *)
(***************************************************************************)
\* C33: in every reachable state of the RequestQueue the number of queued
\* requests is at most maxQueueSize. Violated: the retry continuation of
\* handleError puts the request back at the front of the queue without
\* looking at the queue's length (lines 166-169).
C33_QueueBounded == Len(rq.queue) <= maxQueueSize

\* the invocations of request.fn() that have been started and have not come
\* to their end: those a running request waits for, and those abandoned by
\* a timeout
RECURSIVE AbandonedUpTo(_)
AbandonedUpTo(j) == IF j = 0 THEN 0 ELSE AbandonedUpTo(j - 1) + hist.abandoned[j]

LiveInvocations == Cardinality({j \in JobIds : req[j].st = "running"}) + AbandonedUpTo(MaxJobs)

\* C34: the number of task invocations started by the RequestQueue and not
\* yet finished never exceeds maxConcurrent. Violated: a timeout frees the
\* request's slot (running--, lines 168, 171) while the invocation it gave
\* up waiting for goes on.
C34_ConcurrencyGate == LiveInvocations <= maxConcurrent

\* C39: after clear() has returned no task execution is started for a
\* request that was submitted before the clear. Violated: clear() rejects
\* and drops the queued requests only (lines 206-211); a request that waits
\* out a backoff, or that runs and fails later, is put back into the queue
\* by handleError (lines 166-169) and dispatched again.
C39_ClearCancelsAll ==
    [][\A j \in Dispatched(req, req') : j >= hist.clearedBelow]_vars

\* the requests of source p whose Source Adapter call fails or times out in
\* this step
AdapterFailures(p) ==
    {j \in JobIds : req[j].providerId = p /\ hist'.fails[j] = hist.fails[j] + 1}

\* C37: failureCount and consecutiveFailures of a source increase only in a
\* step in which a call of that source's adapter failed or timed out.
\* Violated: the catch block of scrape() (lines 182-195) counts every
\* rejection of the queue's promise, also the queue's own 'Queue cleared',
\* 'Queue overflow' and 'Queue full'.
C37_HealthCountsAdapterFailures ==
    [][\A p \in Providers :
          (\/ orch'.providerHealth[p].failureCount > orch.providerHealth[p].failureCount
           \/ orch'.providerHealth[p].consecutiveFailures
                 > orch.providerHealth[p].consecutiveFailures)
          => AdapterFailures(p) # {}]_vars

\* the requests that have been submitted
Submitted(j) == req[j].st # "unused"

\* the future of a request is settled one way and stays so
SettledForGood(j) ==
    Settled(j) => /\ req'[j].st = req[j].st
                  /\ req'[j].value = req[j].value
                  /\ req'[j].error = req[j].error

\* C35: the future of every submitted request is settled once, resolved
\* with its result or rejected with an error, and never a second time; and
\* when time passes, the timers fire and the queue is not left paused,
\* every submitted request is settled in the end.
C35_SettledOnceAndInTheEnd ==
    /\ [][\A j \in JobIds : SettledForGood(j)]_vars
    /\ \A j \in JobIds : Submitted(j) ~> Settled(j)

\* every request is settled: one by the queue itself, one resolved after a
\* failed attempt and its backoff
C35_Witness ==
    /\ \A j \in JobIds : Settled(j)
    /\ \E j \in JobIds : req[j].st = "rejected" /\ req[j].error \in QueueErrors
    /\ \E j \in JobIds : req[j].st = "resolved" /\ req[j].attempts >= 1

\* the sources recorded on an item: its `_sources` list and its `_source`
Recorded(item) ==
    {item._sources[i] : i \in 1..Len(item._sources)}
    \cup (IF item._source = "" THEN {} ELSE {item._source})

NoRepetition(s) == \A i, k \in 1..Len(s) : s[i] = s[k] => i = k

\* the `_sources` list of a merged item holds the sources of both inputs
SourcesKept(merged, primary, secondary) ==
    /\ Recorded(primary) \cup Recorded(secondary) \subseteq Recorded(merged)
    /\ NoRepetition(merged._sources)

\* every later item of a group is merged into the group's item
MergesAll(strategy) == strategy \in {"merge", "newest"}

\* C31: the `_sources` list of mergeItems(primary, secondary) holds, without
\* repetition, every source recorded on either input, and the chain of
\* merges of deduplicate loses no source of a merged-in item. Violated:
\* mergeItems reads secondary._source only, never secondary._sources
\* (lines 363-366).
C31_SourcesAccumulate ==
    pure.phase = "once" =>
        /\ \A i, k \in 1..Len(pure.items) :
               SourcesKept(mergeItems(pure.items[i], pure.items[k]),
                           pure.items[i], pure.items[k])
        /\ MergesAll(pure.strategy) /\ Len(pure.items) > 0
              => \A i \in 1..Len(pure.items) :
                     Recorded(pure.items[i]) \subseteq Recorded(pure.out.items[1])

\* this step is a read of the pair (context, hash)
ReadOf(context, hash) ==
    /\ pure'.phase = "read"
    /\ pure'.context = context
    /\ pure'.hash = hash
    /\ clock' = clock

\* the entries of the other keys are as they were
OthersKept(key) ==
    \A k \in LedgerKeys \ {key} : integrity'.dataHashes[k] = integrity.dataHashes[k]

\* C32: a read of a pair marked t ticks ago returns true while t <= ttl
\* and leaves the ledger as it is; a read later than that returns false and
\* the entry is gone after it, so that the reads after it return false too
\* until the pair is marked again; a pair never marked reads false; the
\* entries of the other pairs are untouched by the read.
C32_LedgerExpiry ==
    [][\A c \in LedgerContexts, h \in LedgerHashes :
          ReadOf(c, h) =>
              /\ pure'.result = (hist.marked[<<c, h>>] \in 0..hashExpiry)
              /\ pure'.result => integrity'.dataHashes = integrity.dataHashes
              /\ ~pure'.result => ~integrity'.dataHashes[ledgerKey(c, h)].present
              /\ OthersKept(ledgerKey(c, h))]_vars

\* a pair marked longer ago than ttl was read: the read returned false and
\* its entry is gone, while the entry of another pair is still there
C32_Witness ==
    /\ pure.phase = "read"
    /\ ~pure.result
    /\ hist.marked[<<pure.context, pure.hash>>] = hashExpiry + 1
    /\ ~integrity.dataHashes[ledgerKey(pure.context, pure.hash)].present
    /\ \E k \in LedgerKeys : integrity.dataHashes[k].present

\* two items deduplicate would put into one group
SameGroup(item1, item2) ==
    \/ generateHash(item1, <<"title", "href">>) = generateHash(item2, <<"title", "href">>)
    \/ isFuzzyMatch(item1, item2)

\* C38: the items deduplicate returns are pairwise no duplicates under its
\* own rule: no two of them have the same fingerprint or fuzzy-matching
\* titles. Violated: a merge replaces the item of a group by the incoming
\* item (lines 191, 195), which can match the item of another group.
C38_PairwiseDistinct ==
    pure.phase = "once" =>
        \A i, k \in 1..Len(pure.out.items) :
            i # k => ~SameGroup(pure.out.items[i], pure.out.items[k])

\* no two items of the list have the same {title, href} fingerprint
DistinctFingerprints(data) ==
    \A i, k \in 1..Len(data) :
        i # k => generateHash(data[i], <<"title", "href">>)
                    # generateHash(data[k], <<"title", "href">>)

\* the scrape() calls made with deduplication = true that have returned a
\* list: in the result object of a finished call, or as the list itself
\* when the call joined an execution in flight
ReturnedList(c) ==
    /\ orch.calls[c].st = "done"
    /\ orch.calls[c].deduplication
    /\ orch.calls[c].result.kind = "raw" \/ orch.calls[c].result.success

\* C36: a scrape() call with deduplication = true never returns two items
\* of one fingerprint. Violated: a cache hit returns the cached value as it
\* is (lines 68-99), and a call that joins an execution in flight returns
\* what the execution's request resolves with (lines 63-66).
C36_NeverTwoOfOneFingerprint ==
    \A c \in CallIds : ReturnedList(c) => DistinctFingerprints(orch.calls[c].result.data)

\* the apiRequest calls that issue their HTTP request in this step
Issued == {a \in ApiIds : mangadex.calls[a].st # "sent" /\ mangadex'.calls[a].st = "sent"}

\* C40: apiRequest never issues two HTTP requests less than minInterval
\* apart: when a request is issued, the one before it (its time is
\* RATE_LIMIT.lastRequestTime, written as each request is issued) lies at
\* least minInterval back. Violated: two calls that wait at the same time
\* have computed their delay from the same lastRequestTime and do not read
\* it again after the wait (lines 34-39).
C40_RequestsSpaced ==
    [][Issued # {} => now - mangadex.RATE_LIMIT.lastRequestTime >= minInterval]_vars

====
